---- MODULE Spec2Model ----
(***************************************************************************)
(* Verification model of pyvista's procedural marker geometry:             *)
(*   AxesGeometrySource (shaft/tip triads built from normalized parts)     *)
(*   CubeFacesSource    (six cube faces, shrunk / exploded / framed)       *)
(* Coordinates are exact rationals <<numerator, denominator>>; a mesh is   *)
(* a record [points, faces] with 0-based point ids inside the faces, as    *)
(* in the Python code.  Sequences themselves are 1-based, so the axis      *)
(* enum x=0,y=1,z=2 of the code indexes component axis+1 here.             *)
(***************************************************************************)
EXTENDS Integers, Sequences, FiniteSets, TLC

(***************************************************************************)
(* Bounds of the model.                                                    *)
(***************************************************************************)
\* custom datasets have integer bounding-box extents 1..MaxExtent (besides the tiny ones)
MaxExtent == 2
\* custom datasets have their anchor corner at an offset in 0..MaxOffset on every axis
MaxOffset == 1
\* a run makes at most MaxAssign property assignments on the axes source
MaxAssign == 3
\* a run makes at most MaxCubeAssign property assignments on the cube faces source
MaxCubeAssign == 2

(***************************************************************************)
(* Exact rational arithmetic (numpy float arithmetic without rounding).    *)
(***************************************************************************)
Abs(n) == IF n < 0 THEN -n ELSE n

RECURSIVE GCD(_, _)
GCD(a, b) == IF b = 0 THEN a ELSE GCD(b, a % b)

RNorm(n, d) ==
    LET reduce(g) == IF d < 0 THEN <<-(n \div g), -(d \div g)>> ELSE <<n \div g, d \div g>>
    IN  reduce(GCD(Abs(n), Abs(d)))

R(n, d) == RNorm(n, d)
Zero == <<0, 1>>
One == <<1, 1>>
Half == <<1, 2>>

RAdd(a, b) ==
    LET over(g) == RNorm(a[1] * (b[2] \div g) + b[1] * (a[2] \div g), a[2] * (b[2] \div g))
    IN  over(GCD(a[2], b[2]))

RNeg(a) == <<-a[1], a[2]>>
RSub(a, b) == RAdd(a, RNeg(b))

RMul(a, b) ==
    LET over(g1, g2) == RNorm((a[1] \div g1) * (b[1] \div g2), (a[2] \div g2) * (b[2] \div g1))
    IN  over(GCD(Abs(a[1]), b[2]), GCD(Abs(b[1]), a[2]))

\* reciprocal of a non-zero rational
RInv(a) == IF a[1] > 0 THEN <<a[2], a[1]>> ELSE <<-a[2], -a[1]>>
RDiv(a, b) == RMul(a, RInv(b))

RLt(a, b) ==
    LET over(g) == a[1] * (b[2] \div g) < b[1] * (a[2] \div g)
    IN  over(GCD(a[2], b[2]))

RLe(a, b) == a = b \/ RLt(a, b)
RMin(a, b) == IF RLt(b, a) THEN b ELSE a
RMax(a, b) == IF RLt(a, b) THEN b ELSE a
RAbs(a) == <<Abs(a[1]), a[2]>>

(***************************************************************************)
(* Points, meshes and the dataset operations the sources call.             *)
(***************************************************************************)
Axes3 == 1..3

P3(x, y, z) == <<x, y, z>>
\* a point with integer coordinates
PI(x, y, z) == <<R(x, 1), R(y, 1), R(z, 1)>>
\* a point with coordinates in halves
PH(x, y, z) == <<R(x, 2), R(y, 2), R(z, 2)>>

\* a function over 1..n as an explicit sequence
Tup(f) == f \o <<>>

VAdd(p, q) == Tup([k \in Axes3 |-> RAdd(p[k], q[k])])
VSub(p, q) == Tup([k \in Axes3 |-> RSub(p[k], q[k])])
VMul(p, q) == Tup([k \in Axes3 |-> RMul(p[k], q[k])])
VNeg(p) == Tup([k \in Axes3 |-> RNeg(p[k])])

EmptyMesh == [points |-> <<>>, faces |-> <<>>]

NPoints(m) == Len(m.points)

\* least and greatest element of a non-empty finite set of rationals
SetMin(S) == CHOOSE a \in S : \A b \in S : RLe(a, b)
SetMax(S) == CHOOSE a \in S : \A b \in S : RLe(b, a)

Coords(pts, k) == {pts[i][k] : i \in 1..Len(pts)}

\* bounds of a non-empty point array: per axis <<min, max>>
PointsBounds(pts) ==
    Tup([k \in Axes3 |-> <<SetMin(Coords(pts, k)), SetMax(Coords(pts, k))>>])

\* DataSet.bounds
Bounds(m) == PointsBounds(m.points)

\* DataSet.center: the center of the bounding box
Center(m) ==
    LET middle(b) == Tup([k \in Axes3 |-> RMul(Half, RAdd(b[k][1], b[k][2]))])
    IN  middle(Bounds(m))

\* part.points -= v   /   part.points[:, axis] += c
TranslatePoints(m, v) ==
    [m EXCEPT !.points = Tup([i \in 1..Len(m.points) |-> VAdd(m.points[i], v)])]

AxisVector(axis, c) == Tup([k \in Axes3 |-> IF k = axis THEN c ELSE Zero])

\* DataSet.scale(xyz, inplace=True): per-axis scaling about the origin
Scale(m, xyz) ==
    [m EXCEPT !.points = Tup([i \in 1..Len(m.points) |-> VMul(m.points[i], xyz)])]

\* cos and sin of a multiple of 90 degrees
Cos90(deg) == CASE deg % 360 = 0 -> 1 [] deg % 360 = 180 -> -1 [] OTHER -> 0
Sin90(deg) == CASE deg % 360 = 90 -> 1 [] deg % 360 = 270 -> -1 [] OTHER -> 0

RI(n) == <<n, 1>>

\* DataSet.rotate_y(angle): right-handed rotation about the y axis through the origin
RotateY(m, deg) ==
    LET rotate(p, c, s) == <<RAdd(RMul(c, p[1]), RMul(s, p[3])),
                             p[2],
                             RSub(RMul(c, p[3]), RMul(s, p[1]))>>
    IN  [m EXCEPT !.points = Tup([i \in 1..Len(m.points) |->
            rotate(m.points[i], RI(Cos90(deg)), RI(Sin90(deg)))])]

\* DataSet.rotate_x(angle): right-handed rotation about the x axis through the origin
RotateX(m, deg) ==
    LET rotate(p, c, s) == <<p[1],
                             RSub(RMul(c, p[2]), RMul(s, p[3])),
                             RAdd(RMul(s, p[2]), RMul(c, p[3]))>>
    IN  [m EXCEPT !.points = Tup([i \in 1..Len(m.points) |->
            rotate(m.points[i], RI(Cos90(deg)), RI(Sin90(deg)))])]

\* DataSet.flip_normal(normal=e_axis, point=origin): reflection through the
\* plane through the origin perpendicular to the axis (a new mesh is returned)
FlipNormal(m, axis) ==
    [m EXCEPT !.points = Tup([i \in 1..Len(m.points) |->
        Tup([k \in Axes3 |-> IF k = axis THEN RNeg(m.points[i][k]) ELSE m.points[i][k]])])]

\* PolyData.append_polydata(other, inplace=True): points are concatenated
\* (never merged) and the ids of the appended faces are shifted
AppendPolydata(m, other) ==
    [points |-> m.points \o other.points,
     faces |-> m.faces \o [f \in 1..Len(other.faces) |->
                  Tup([j \in 1..Len(other.faces[f]) |-> other.faces[f][j] + Len(m.points)])]]

(***************************************************************************)
(* The primitives behind the named geometry types.  The toolkit builds     *)
(* them at resolution 50; here every circle of radius 1/2 is tessellated   *)
(* by four of its points, (+-1/2, 0) and (0, +-1/2), which keeps what      *)
(* matters of an even tessellation: the points lie on the circle, the      *)
(* polygon is symmetric about the axis, touches the circle's bounding      *)
(* square and does not fill it.                                            *)
(***************************************************************************)
Ring(z) ==
    << <<R(1, 2), Zero, z>>, <<Zero, R(1, 2), z>>, <<R(-1, 2), Zero, z>>, <<Zero, R(-1, 2), z>> >>

\* pyvista.Cylinder(direction=(0, 0, 1)): radius 1/2, height 1, centered
Cylinder ==
    [points |-> Ring(R(-1, 2)) \o Ring(R(1, 2)),
     faces |-> << <<0, 1, 2, 3>>, <<4, 5, 6, 7>>, <<0, 1, 5, 4>>, <<1, 2, 6, 5>>,
                  <<2, 3, 7, 6>>, <<3, 0, 4, 7>> >>]

\* pyvista.Sphere(): radius 1/2, centered
Sphere ==
    [points |-> << <<Zero, Zero, R(1, 2)>>, <<Zero, Zero, R(-1, 2)>> >> \o Ring(Zero),
     faces |-> << <<0, 2, 3>>, <<0, 3, 4>>, <<0, 4, 5>>, <<0, 5, 2>>,
                  <<1, 3, 2>>, <<1, 4, 3>>, <<1, 5, 4>>, <<1, 2, 5>> >>]

\* pyvista.SolidSphere(end_phi=90).extract_geometry(): the upper half ball of radius 1/2
Hemisphere ==
    [points |-> << <<Zero, Zero, R(1, 2)>>, <<Zero, Zero, Zero>> >> \o Ring(Zero),
     faces |-> << <<0, 2, 3>>, <<0, 3, 4>>, <<0, 4, 5>>, <<0, 5, 2>>,
                  <<1, 3, 2>>, <<1, 4, 3>>, <<1, 5, 4>>, <<1, 2, 5>> >>]

\* pyvista.Cone(direction=(0, 0, 1)): apex at z = 1/2, base circle of radius 1/2 at z = -1/2
Cone ==
    [points |-> << <<Zero, Zero, R(1, 2)>> >> \o Ring(R(-1, 2)),
     faces |-> << <<1, 2, 3, 4>>, <<0, 1, 2>>, <<0, 2, 3>>, <<0, 3, 4>>, <<0, 4, 1>> >>]

\* pyvista.Pyramid().extract_geometry(): base (+-1, +-1, 0), apex on the z axis
\* (the apex height sqrt(4 - sqrt 2) is taken as 8/5)
Pyramid ==
    [points |-> << PI(1, 1, 0), PI(-1, 1, 0), PI(-1, -1, 0), PI(1, -1, 0),
                   <<Zero, Zero, R(8, 5)>> >>,
     faces |-> << <<0, 1, 2, 3>>, <<0, 1, 4>>, <<1, 2, 4>>, <<2, 3, 4>>, <<3, 0, 4>> >>]

\* pyvista.Cube(): unit cube centered at the origin
Cube ==
    [points |-> << PH(-1, -1, -1), PH(-1, -1, 1), PH(-1, 1, 1), PH(-1, 1, -1),
                   PH(1, -1, -1), PH(1, 1, -1), PH(1, 1, 1), PH(1, -1, 1) >>,
     faces |-> << <<0, 1, 2, 3>>, <<4, 5, 6, 7>>, <<0, 4, 7, 1>>,
                  <<3, 2, 6, 5>>, <<0, 3, 5, 4>>, <<1, 7, 6, 2>> >>]

\* pyvista.Octahedron(): radius 1, centered
Octahedron ==
    [points |-> << PI(1, 0, 0), PI(-1, 0, 0), PI(0, 1, 0), PI(0, -1, 0),
                   PI(0, 0, 1), PI(0, 0, -1) >>,
     faces |-> << <<0, 2, 4>>, <<2, 1, 4>>, <<1, 3, 4>>, <<3, 0, 4>>,
                  <<2, 0, 5>>, <<1, 2, 5>>, <<3, 1, 5>>, <<0, 3, 5>> >>]

GEOMETRY_TYPES ==
    {"cylinder", "sphere", "hemisphere", "cone", "pyramid", "cube", "octahedron"}

(***************************************************************************)
(* Geometry arguments: a string, a dataset, or anything else.              *)
(***************************************************************************)
GeomStr(s) == [tag |-> "str", name |-> s, cls |-> "", mesh |-> EmptyMesh]
GeomDataSet(cls, m) == [tag |-> "DataSet", name |-> "", cls |-> cls, mesh |-> m]
GeomOther == [tag |-> "other", name |-> "", cls |-> "", mesh |-> EmptyMesh]

\* the four triangles of a single tetrahedral cell
TetraFaces == << <<0, 1, 2>>, <<0, 1, 3>>, <<0, 2, 3>>, <<1, 2, 3>> >>

\* DataSet.extract_geometry() of a grid holding one tetrahedron: its boundary
\* surface, i.e. the same four points with the four triangles
ExtractGeometry(m) == [points |-> m.points, faces |-> TetraFaces]

\* outcome of an operation that may raise
Ok(name, parts) == [status |-> "ok", name |-> name, parts |-> parts]
Raise(exc, parts) == [status |-> exc, name |-> "", parts |-> parts]
Unset == [status |-> "unset", name |-> "", parts |-> <<>>]

\* the degeneracy threshold of _normalize_part
Epsilon == R(1, 100000000)

\* a plausible slip: the extent is measured from the center (half the edge length)
normalize_part_half(part) ==
    LET scaled(centered, b, axis_length) ==
            IF \E k \in Axes3 : RLt(axis_length[k], Epsilon)
            THEN Raise("ValueError", <<centered>>)
            ELSE Ok("", <<Scale(centered, Tup([k \in Axes3 |-> RInv(b[k][2])]))>>)
        measured(centered, b) ==
            scaled(centered, b, Tup([k \in Axes3 |-> RSub(b[k][2], b[k][1])]))
        bounded(centered) == measured(centered, Bounds(centered))
    IN  bounded(TranslatePoints(part, VNeg(Center(part))))

\* a plausible slip: one common scale (the largest extent) instead of a per-axis scale
normalize_part_uniform(part) ==
    LET uniform(longest) == <<RInv(longest), RInv(longest), RInv(longest)>>
        scaled(centered, axis_length) ==
            IF \E k \in Axes3 : RLt(axis_length[k], Epsilon)
            THEN Raise("ValueError", <<centered>>)
            ELSE Ok("", <<Scale(centered,
                    uniform(RMax(axis_length[1], RMax(axis_length[2], axis_length[3]))))>>)
        measured(centered, b) ==
            scaled(centered, Tup([k \in Axes3 |-> RSub(b[k][2], b[k][1])]))
        bounded(centered) == measured(centered, Bounds(centered))
    IN  bounded(TranslatePoints(part, VNeg(Center(part))))

\* a plausible slip: the degeneracy test uses <= instead of <
normalize_part_le(part) ==
    LET scaled(centered, axis_length) ==
            IF \E k \in Axes3 : RLe(axis_length[k], Epsilon)
            THEN Raise("ValueError", <<centered>>)
            ELSE Ok("", <<Scale(centered, Tup([k \in Axes3 |-> RInv(axis_length[k])]))>>)
        measured(centered, b) ==
            scaled(centered, Tup([k \in Axes3 |-> RSub(b[k][2], b[k][1])]))
        bounded(centered) == measured(centered, Bounds(centered))
    IN  bounded(TranslatePoints(part, VNeg(Center(part))))

\* AxesGeometrySource._normalize_part: the argument is modified in place, so
\* the outcome carries the part as the call leaves it (centered only, when
\* the call raises)
normalize_part(part) ==
    LET scaled(centered, axis_length) ==
            IF \E k \in Axes3 : RLt(axis_length[k], Epsilon)
            THEN Raise("ValueError", <<centered>>)
            ELSE Ok("", <<Scale(centered, Tup([k \in Axes3 |-> RInv(axis_length[k])]))>>)
        measured(centered, b) ==
            scaled(centered, Tup([k \in Axes3 |-> RSub(b[k][2], b[k][1])]))
        bounded(centered) == measured(centered, Bounds(centered))
    IN  bounded(TranslatePoints(part, VNeg(Center(part))))

\* AxesGeometrySource._make_default_part
make_default_part(geometry) ==
    CASE geometry = "cylinder" -> Ok(geometry, <<Cylinder>>)
      [] geometry = "sphere" -> Ok(geometry, <<Sphere>>)
      [] geometry = "hemisphere" -> Ok(geometry, <<Hemisphere>>)
      [] geometry = "cone" -> Ok(geometry, <<Cone>>)
      [] geometry = "pyramid" -> Ok(geometry, <<Pyramid>>)
      [] geometry = "cube" -> Ok(geometry, <<Cube>>)
      [] geometry = "octahedron" -> Ok(geometry, <<Octahedron>>)
      [] OTHER -> Raise("ValueError", <<>>)

\* AxesGeometrySource._make_any_part
make_any_part(geometry) ==
    LET named(name, n) == IF n.status = "ok" THEN Ok(name, n.parts) ELSE Raise(n.status, <<>>)
        default(made) ==
            IF made.status # "ok" THEN made
            ELSE named(geometry.name, normalize_part(made.parts[1]))
        part_poly(part) == IF geometry.cls = "PolyData" THEN part ELSE ExtractGeometry(part)
    IN  IF geometry.tag = "str" THEN default(make_default_part(geometry.name))
        ELSE IF geometry.tag = "DataSet"
        THEN named("custom", normalize_part(part_poly(geometry.mesh)))
        ELSE Raise("TypeError", <<>>)

\* a plausible slip: the dataset is not copied, so that _normalize_part works
\* on the caller's object when that is a PolyData
make_any_part_argument_no_copy(geometry) ==
    LET normalized_in_place(heap, ref) ==
            [heap EXCEPT ![ref] = normalize_part(heap[ref]).parts[1]]
        part_poly(heap, part) ==
            IF geometry.cls = "PolyData" THEN normalized_in_place(heap, part)
            ELSE normalized_in_place(Append(heap, ExtractGeometry(heap[part])), Len(heap) + 1)
        after(heap) == heap[1]
    IN  after(part_poly(<<geometry.mesh>>, 1))

\* _make_any_part(geometry) on a dataset, as the caller sees it: the caller's
\* dataset after the call. The objects of the call are the cells of a heap:
\* cell 1 is the caller's dataset, geometry.copy() and extract_geometry()
\* allocate new cells, and _normalize_part writes to the cell it is given
\* (it has moved the points before it tests the extents)
make_any_part_argument(geometry) ==
    LET normalized_in_place(heap, ref) ==
            [heap EXCEPT ![ref] = normalize_part(heap[ref]).parts[1]]
        part_poly(heap, part) ==
            IF geometry.cls = "PolyData" THEN normalized_in_place(heap, part)
            ELSE normalized_in_place(Append(heap, ExtractGeometry(heap[part])), Len(heap) + 1)
        copied(heap) == part_poly(Append(heap, heap[1]), Len(heap) + 1)
        after(heap) == heap[1]
    IN  after(copied(<<geometry.mesh>>))

\* a plausible slip: the x and y parts are returned in each other's place
make_axes_parts_swapped(geometry) ==
    LET triple(name, part_z) == Ok(name, <<RotateX(part_z, 270), RotateY(part_z, 90), part_z>>)
        rotated(any) == IF any.status # "ok" THEN any ELSE triple(any.name, any.parts[1])
    IN  rotated(make_any_part(geometry))

\* a plausible slip: the x part is turned the other way round (-90 about y)
make_axes_parts_neg(geometry) ==
    LET triple(name, part_z) == Ok(name, <<RotateY(part_z, 270), RotateX(part_z, 270), part_z>>)
        rotated(any) == IF any.status # "ok" THEN any ELSE triple(any.name, any.parts[1])
    IN  rotated(make_any_part(geometry))

\* AxesGeometrySource._make_axes_parts: (name, (part_x, part_y, part_z))
make_axes_parts(geometry) ==
    LET part_x(part_z) == RotateY(part_z, 90)
        part_y(part_z) == RotateX(part_z, 270)
        triple(name, part_z) == Ok(name, <<part_x(part_z), part_y(part_z), part_z>>)
        rotated(any) == IF any.status # "ok" THEN any ELSE triple(any.name, any.parts[1])
    IN  rotated(make_any_part(geometry))

(***************************************************************************)
(* State.                                                                  *)
(***************************************************************************)
VARIABLES
    \* argument and outcomes of the static part constructors
    geometry,                   \* the geometry argument handed to the static methods
    triad,                      \* outcome of _make_axes_parts(geometry)
    normalized,                 \* outcome of _normalize_part on the raw part
    renormalized,               \* outcome of _normalize_part on the normalized part
    \* AxesGeometrySource
    shaft_type,                 \* _shaft_type
    tip_type,                   \* _tip_type
    shaft_radius,               \* _shaft_radius
    tip_radius,                 \* _tip_radius
    shaft_length,               \* _shaft_length
    tip_length,                 \* _tip_length
    symmetric,                  \* _symmetric
    symmetric_bounds,           \* _symmetric_bounds
    shaft_datasets_normalized,  \* _shaft_datasets_normalized (x, y, z)
    tip_datasets_normalized,    \* _tip_datasets_normalized (x, y, z)
    output,                     \* _output: the six named blocks
    last,                       \* how the last call on the source ended
    assigned,                   \* number of property assignments made so far
    \* CubeFacesSource
    cube_center,                \* vtkCubeSource Center
    cube_lengths,               \* vtkCubeSource XLength, YLength, ZLength
    frame_width,                \* _frame_width
    shrink_factor,              \* _shrink_factor
    explode_factor,             \* _explode_factor
    names,                      \* _names
    cube_output,                \* _output: the six face blocks
    cube_last,                  \* how the last call on the cube source ended
    cube_assigned,              \* number of property assignments made so far
    \* a caller of the output accessors
    held,                       \* the composite the caller obtained first and keeps
    \* CompositeFilters.transform
    mb,                         \* the composite transform is called on: its blocks in order
    transformed,                \* the last call of transform: arguments, composite before, result
    \* OrthogonalPlanesSource
    sources,                    \* the three PlaneSource objects (yz, zx, xy)
    normal_sign,                \* _normal_sign
    planes_bounds,              \* _bounds
    planes_assigned,            \* number of property assignments made so far
    \* Text3DSource
    text,                       \* the declared parameters: string, width, height, depth, center,
                                \* normal, process_empty_string
    text_modified,              \* _modified
    text_output,                \* _output
    text_last,                  \* the last call on the text source and how it ended
    text_assigned,              \* number of attribute assignments made so far
    \* render_pick_data
    np_buffer,                  \* one pixel of the float value buffer: NaN or a pick id
    pick_buffer                 \* the RGBA pixel render_pick_data returns for it

part_vars == <<geometry, triad, normalized, renormalized>>

axes_params == <<shaft_type, tip_type, shaft_radius, tip_radius, shaft_length, tip_length,
                 symmetric, symmetric_bounds>>

axes_vars == <<shaft_type, tip_type, shaft_radius, tip_radius, shaft_length, tip_length,
               symmetric, symmetric_bounds, shaft_datasets_normalized,
               tip_datasets_normalized, output, last, assigned>>

cube_params == <<cube_center, cube_lengths, frame_width, shrink_factor, explode_factor, names>>

cube_vars == <<cube_center, cube_lengths, frame_width, shrink_factor, explode_factor, names,
               cube_output, cube_last, cube_assigned>>

caller_vars == <<held>>

composite_vars == <<mb, transformed>>

planes_vars == <<sources, normal_sign, planes_bounds, planes_assigned>>

text_vars == <<text, text_modified, text_output, text_last, text_assigned>>

pick_vars == <<np_buffer, pick_buffer>>

other_vars == <<caller_vars, composite_vars, planes_vars, text_vars, pick_vars>>

AxisEnum == [x |-> 1, y |-> 2, z |-> 3]
PartEnum == [shaft |-> 0, tip |-> 1]

(***************************************************************************)
(* Arguments the callers pass.                                             *)
(***************************************************************************)
\* extents around the degeneracy threshold: 0, eps/2, eps, 3 eps/2
TinyExtents == {R(k, 200000000) : k \in 0..3}
Extents == TinyExtents \cup {R(k, 1) : k \in 1..MaxExtent}
Offsets == {R(k, 1) : k \in 0..MaxOffset}

\* a tetrahedron with anchor corner o and bounding-box extents e
Tetra(o, e) ==
    [points |-> << o, VAdd(o, AxisVector(1, e[1])), VAdd(o, AxisVector(2, e[2])),
                   VAdd(o, AxisVector(3, e[3])) >>,
     faces |-> TetraFaces]

CustomDataSets ==
    {GeomDataSet(cls, Tetra(<<ox, oy, oz>>, <<ex, ey, ez>>)) :
        cls \in {"PolyData", "UnstructuredGrid"},
        ox \in Offsets, oy \in {Zero}, oz \in Offsets,
        ex \in Extents, ey \in Extents, ez \in Extents}

GeometryInputs ==
    {GeomStr(s) : s \in GEOMETRY_TYPES \cup {"torus"}} \cup {GeomOther} \cup CustomDataSets

\* shaft type arguments: a named kind, datasets (one of them flat), a wrong name, a non-dataset
ShaftTypeInputs ==
    {GeomStr("cylinder"), GeomStr("cube"), GeomStr("torus"), GeomOther,
     GeomDataSet("UnstructuredGrid", Tetra(PI(1, 0, 1), <<R(2, 1), R(1, 1), R(1, 2)>>)),
     GeomDataSet("PolyData", Tetra(PI(0, 0, 0), <<R(1, 1), Zero, R(1, 1)>>))}

\* tip type arguments
TipTypeInputs ==
    {GeomStr("cone"), GeomStr("hemisphere"), GeomStr("arrow"), GeomOther,
     GeomDataSet("PolyData", Tetra(PI(0, 0, 0), <<R(1, 1), R(1, 1), Epsilon>>))}

ShaftRadiusInputs == {R(-1, 10), Zero, R(1, 10)}
TipRadiusInputs == {R(-1, 5), Zero, R(1, 5)}

\* lengths: a scalar (one element) or a 3-vector
ShaftLengthInputs ==
    {<<R(4, 5)>>, <<R(-1, 1)>>, <<R(1, 1), R(2, 1), R(3, 1)>>, <<R(1, 1), R(-2, 1), R(3, 1)>>}
TipLengthInputs ==
    {<<R(1, 5)>>, <<Zero, R(1, 5), R(2, 5)>>, <<R(1, 5), R(1, 5), R(-1, 5)>>}

(***************************************************************************)
(* AxesGeometrySource.                                                     *)
(***************************************************************************)
OUTPUT_NAMES == <<"x_shaft", "y_shaft", "z_shaft", "x_tip", "y_tip", "z_tip">>

\* _validation.check_range(radius, (0, inf)): the range is closed at 0
check_range(radius) == IF RLt(radius, Zero) THEN "ValueError" ELSE "ok"

\* _validation.validate_array3(length, broadcast=True, must_be_in_range=[0, inf])
validate_array3(length) ==
    LET arr == IF Len(length) = 1 THEN <<length[1], length[1], length[1]>> ELSE length
    IN  IF Len(arr) # 3 \/ \E k \in 1..Len(arr) : RLt(arr[k], Zero)
        THEN Raise("ValueError", <<>>)
        ELSE Ok("", arr)

\* a plausible slip: the cached datasets are emptied before the new parts are
\* built, so that a failure leaves them empty
set_normalized_datasets_clear_first(datasets, geom) ==
    LET stored(made) ==
            IF made.status # "ok" THEN Raise(made.status, <<EmptyMesh, EmptyMesh, EmptyMesh>>)
            ELSE Ok(made.name, <<made.parts[AxisEnum.x], made.parts[AxisEnum.y],
                                 made.parts[AxisEnum.z]>>)
    IN  stored(make_axes_parts(geom))

\* AxesGeometrySource._set_normalized_datasets: the new parts are built first;
\* the cached datasets are overwritten only when that succeeded
set_normalized_datasets(datasets, geom) ==
    LET stored(made) ==
            IF made.status # "ok" THEN Raise(made.status, datasets)
            ELSE Ok(made.name, <<made.parts[AxisEnum.x], made.parts[AxisEnum.y],
                                 made.parts[AxisEnum.z]>>)
    IN  stored(make_axes_parts(geom))

\* a plausible slip: the part is reset from its template only while it is still empty
reset_part_once(part_type, axis, part, part_normalized) ==
    LET start == IF NPoints(part) = 0 THEN part_normalized ELSE part
        shifted == TranslatePoints(start, AxisVector(axis, Half))
        radius == IF part_type = PartEnum.shaft THEN shaft_radius ELSE tip_radius
        length == IF part_type = PartEnum.shaft THEN shaft_length ELSE tip_length
        diameter == RMul(R(2, 1), radius)
        scale == Tup([k \in Axes3 |-> IF k = axis THEN length[axis] ELSE diameter])
        move(scaled) ==
            IF part_type = PartEnum.tip
            THEN TranslatePoints(scaled, AxisVector(axis, shaft_length[axis]))
            ELSE scaled
        finished(moved) ==
            IF symmetric
            THEN AppendPolydata(moved, FlipNormal(moved, axis))
            ELSE IF symmetric_bounds /\ part_type = PartEnum.tip
            THEN LET total_length == RAdd(shaft_length[axis], tip_length[axis])
                     flipped_point == AxisVector(axis, RNeg(total_length))
                     point_id == NPoints(moved)
                 IN  [points |-> Append(moved.points, flipped_point),
                      faces |-> Append(moved.faces, <<point_id, point_id, point_id>>)]
            ELSE moved
    IN  finished(move(Scale(shifted, scale)))

\* a plausible slip: the transverse axes are scaled by the radius, not the diameter
reset_part_radius(part_type, axis, part, part_normalized) ==
    LET shifted == TranslatePoints(part_normalized, AxisVector(axis, Half))
        radius == IF part_type = PartEnum.shaft THEN shaft_radius ELSE tip_radius
        length == IF part_type = PartEnum.shaft THEN shaft_length ELSE tip_length
        scale == Tup([k \in Axes3 |-> IF k = axis THEN length[axis] ELSE radius])
        move(scaled) ==
            IF part_type = PartEnum.tip
            THEN TranslatePoints(scaled, AxisVector(axis, shaft_length[axis]))
            ELSE scaled
        finished(moved) ==
            IF symmetric
            THEN AppendPolydata(moved, FlipNormal(moved, axis))
            ELSE IF symmetric_bounds /\ part_type = PartEnum.tip
            THEN LET total_length == RAdd(shaft_length[axis], tip_length[axis])
                     flipped_point == AxisVector(axis, RNeg(total_length))
                     point_id == NPoints(moved)
                 IN  [points |-> Append(moved.points, flipped_point),
                      faces |-> Append(moved.faces, <<point_id, point_id, point_id>>)]
            ELSE moved
    IN  finished(move(Scale(shifted, scale)))

\* a plausible slip: the tip is moved to the end of the shaft before it is scaled
reset_part_early_move(part_type, axis, part, part_normalized) ==
    LET shifted == TranslatePoints(part_normalized, AxisVector(axis, Half))
        radius == IF part_type = PartEnum.shaft THEN shaft_radius ELSE tip_radius
        length == IF part_type = PartEnum.shaft THEN shaft_length ELSE tip_length
        diameter == RMul(R(2, 1), radius)
        scale == Tup([k \in Axes3 |-> IF k = axis THEN length[axis] ELSE diameter])
        move(placed) ==
            IF part_type = PartEnum.tip
            THEN TranslatePoints(placed, AxisVector(axis, shaft_length[axis]))
            ELSE placed
        finished(moved) ==
            IF symmetric
            THEN AppendPolydata(moved, FlipNormal(moved, axis))
            ELSE IF symmetric_bounds /\ part_type = PartEnum.tip
            THEN LET total_length == RAdd(shaft_length[axis], tip_length[axis])
                     flipped_point == AxisVector(axis, RNeg(total_length))
                     point_id == NPoints(moved)
                 IN  [points |-> Append(moved.points, flipped_point),
                      faces |-> Append(moved.faces, <<point_id, point_id, point_id>>)]
            ELSE moved
    IN  finished(Scale(move(shifted), scale))

\* a plausible slip: the point of the degenerate cell is not flipped
reset_part_unflipped(part_type, axis, part, part_normalized) ==
    LET copied == part_normalized
        shifted == TranslatePoints(copied, AxisVector(axis, Half))
        radius == IF part_type = PartEnum.shaft THEN shaft_radius ELSE tip_radius
        length == IF part_type = PartEnum.shaft THEN shaft_length ELSE tip_length
        diameter == RMul(R(2, 1), radius)
        scale == Tup([k \in Axes3 |-> IF k = axis THEN length[axis] ELSE diameter])
        move(scaled) ==
            IF part_type = PartEnum.tip
            THEN TranslatePoints(scaled, AxisVector(axis, shaft_length[axis]))
            ELSE scaled
        finished(moved) ==
            IF symmetric
            THEN AppendPolydata(moved, FlipNormal(moved, axis))
            ELSE IF symmetric_bounds /\ part_type = PartEnum.tip
            THEN LET total_length == RAdd(shaft_length[axis], tip_length[axis])
                     point == AxisVector(axis, total_length)
                     point_id == NPoints(moved)
                 IN  [points |-> Append(moved.points, point),
                      faces |-> Append(moved.faces, <<point_id, point_id, point_id>>)]
            ELSE moved
    IN  finished(move(Scale(shifted, scale)))

\* a plausible slip: the test of symmetric_bounds is a second if, not an elif,
\* so that a mirrored tip gets the degenerate cell as well
reset_part_pad_always(part_type, axis, part, part_normalized) ==
    LET copied == part_normalized
        shifted == TranslatePoints(copied, AxisVector(axis, Half))
        radius == IF part_type = PartEnum.shaft THEN shaft_radius ELSE tip_radius
        length == IF part_type = PartEnum.shaft THEN shaft_length ELSE tip_length
        diameter == RMul(R(2, 1), radius)
        scale == Tup([k \in Axes3 |-> IF k = axis THEN length[axis] ELSE diameter])
        move(scaled) ==
            IF part_type = PartEnum.tip
            THEN TranslatePoints(scaled, AxisVector(axis, shaft_length[axis]))
            ELSE scaled
        mirror(moved) ==
            IF symmetric THEN AppendPolydata(moved, FlipNormal(moved, axis)) ELSE moved
        finished(moved) ==
            IF symmetric_bounds /\ part_type = PartEnum.tip
            THEN LET total_length == RAdd(shaft_length[axis], tip_length[axis])
                     flipped_point == AxisVector(axis, RNeg(total_length))
                     point_id == NPoints(moved)
                 IN  [points |-> Append(moved.points, flipped_point),
                      faces |-> Append(moved.faces, <<point_id, point_id, point_id>>)]
            ELSE moved
    IN  finished(mirror(move(Scale(shifted, scale))))

\* a plausible slip: the mirrored copy replaces the part instead of being appended
reset_part_no_append(part_type, axis, part, part_normalized) ==
    LET shifted == TranslatePoints(part_normalized, AxisVector(axis, Half))
        radius == IF part_type = PartEnum.shaft THEN shaft_radius ELSE tip_radius
        length == IF part_type = PartEnum.shaft THEN shaft_length ELSE tip_length
        diameter == RMul(R(2, 1), radius)
        scale == Tup([k \in Axes3 |-> IF k = axis THEN length[axis] ELSE diameter])
        move(scaled) ==
            IF part_type = PartEnum.tip
            THEN TranslatePoints(scaled, AxisVector(axis, shaft_length[axis]))
            ELSE scaled
        finished(moved) ==
            IF symmetric
            THEN FlipNormal(moved, axis)
            ELSE IF symmetric_bounds /\ part_type = PartEnum.tip
            THEN LET total_length == RAdd(shaft_length[axis], tip_length[axis])
                     flipped_point == AxisVector(axis, RNeg(total_length))
                     point_id == NPoints(moved)
                 IN  [points |-> Append(moved.points, flipped_point),
                      faces |-> Append(moved.faces, <<point_id, point_id, point_id>>)]
            ELSE moved
    IN  finished(move(Scale(shifted, scale)))

\* one iteration of the loop of _reset_shaft_and_tip_geometry: part is the
\* output dataset of (part_type, axis), overwritten from its normalized template
reset_part(part_type, axis, part, part_normalized) ==
    LET copied == part_normalized
        shifted == TranslatePoints(copied, AxisVector(axis, Half))
        radius == IF part_type = PartEnum.shaft THEN shaft_radius ELSE tip_radius
        length == IF part_type = PartEnum.shaft THEN shaft_length ELSE tip_length
        diameter == RMul(R(2, 1), radius)
        scale == Tup([k \in Axes3 |-> IF k = axis THEN length[axis] ELSE diameter])
        move(scaled) ==
            IF part_type = PartEnum.tip
            THEN TranslatePoints(scaled, AxisVector(axis, shaft_length[axis]))
            ELSE scaled
        finished(moved) ==
            IF symmetric
            THEN AppendPolydata(moved, FlipNormal(moved, axis))
            ELSE IF symmetric_bounds /\ part_type = PartEnum.tip
            THEN LET total_length == RAdd(shaft_length[axis], tip_length[axis])
                     flipped_point == AxisVector(axis, RNeg(total_length))
                     point_id == NPoints(moved)
                 IN  [points |-> Append(moved.points, flipped_point),
                      faces |-> Append(moved.faces, <<point_id, point_id, point_id>>)]
            ELSE moved
    IN  finished(move(Scale(shifted, scale)))

\* AxesGeometrySource._reset_shaft_and_tip_geometry: blocks 1..3 are the
\* shafts, blocks 4..6 the tips, each in x, y, z order
reset_shaft_and_tip_geometry ==
    Tup([i \in 1..6 |->
        LET part_type == IF i <= 3 THEN PartEnum.shaft ELSE PartEnum.tip
            axis == IF i <= 3 THEN i ELSE i - 3
            part_normalized == IF i <= 3 THEN shaft_datasets_normalized[axis]
                               ELSE tip_datasets_normalized[axis]
        IN  [name |-> output[i].name,
             mesh |-> reset_part(part_type, axis, output[i].mesh, part_normalized)]])

\* AxesGeometrySource.__init__ with its default arguments
AxesInit ==
    /\ shaft_type = "cylinder"
    /\ shaft_datasets_normalized = make_axes_parts(GeomStr("cylinder")).parts
    /\ shaft_radius = R(1, 40)
    /\ shaft_length = validate_array3(<<R(4, 5)>>).parts
    /\ tip_type = "cone"
    /\ tip_datasets_normalized = make_axes_parts(GeomStr("cone")).parts
    /\ tip_radius = R(1, 10)
    /\ tip_length = validate_array3(<<R(1, 5)>>).parts
    /\ symmetric = FALSE
    /\ symmetric_bounds = FALSE
    /\ output = Tup([i \in 1..6 |-> [name |-> OUTPUT_NAMES[i], mesh |-> EmptyMesh]])
    /\ last = "init"
    /\ assigned = 0

\* shaft_type setter
SetShaftType ==
    /\ assigned < MaxAssign
    /\ \E g \in ShaftTypeInputs :
        \E r \in {set_normalized_datasets(shaft_datasets_normalized, g)} :
            /\ shaft_datasets_normalized' = r.parts
            /\ shaft_type' = IF r.status = "ok" THEN r.name ELSE shaft_type
            /\ last' = IF r.status = "ok" THEN "set" ELSE r.status
    /\ assigned' = assigned + 1
    /\ UNCHANGED <<tip_type, shaft_radius, tip_radius, shaft_length, tip_length,
                   symmetric, symmetric_bounds, tip_datasets_normalized, output>>

\* tip_type setter
SetTipType ==
    /\ assigned < MaxAssign
    /\ \E g \in TipTypeInputs :
        \E r \in {set_normalized_datasets(tip_datasets_normalized, g)} :
            /\ tip_datasets_normalized' = r.parts
            /\ tip_type' = IF r.status = "ok" THEN r.name ELSE tip_type
            /\ last' = IF r.status = "ok" THEN "set" ELSE r.status
    /\ assigned' = assigned + 1
    /\ UNCHANGED <<shaft_type, shaft_radius, tip_radius, shaft_length, tip_length,
                   symmetric, symmetric_bounds, shaft_datasets_normalized, output>>

\* a plausible slip: the radius is stored before its range is checked
SetShaftRadiusStoreFirst ==
    /\ assigned < MaxAssign
    /\ \E radius \in ShaftRadiusInputs :
        /\ shaft_radius' = radius
        /\ last' = IF check_range(radius) = "ok" THEN "set" ELSE check_range(radius)
    /\ assigned' = assigned + 1
    /\ UNCHANGED <<shaft_type, tip_type, tip_radius, shaft_length, tip_length, symmetric,
                   symmetric_bounds, shaft_datasets_normalized, tip_datasets_normalized,
                   output>>

\* shaft_radius setter
SetShaftRadius ==
    /\ assigned < MaxAssign
    /\ \E radius \in ShaftRadiusInputs :
        /\ shaft_radius' = IF check_range(radius) = "ok" THEN radius ELSE shaft_radius
        /\ last' = IF check_range(radius) = "ok" THEN "set" ELSE check_range(radius)
    /\ assigned' = assigned + 1
    /\ UNCHANGED <<shaft_type, tip_type, tip_radius, shaft_length, tip_length, symmetric,
                   symmetric_bounds, shaft_datasets_normalized, tip_datasets_normalized,
                   output>>

\* tip_radius setter
SetTipRadius ==
    /\ assigned < MaxAssign
    /\ \E radius \in TipRadiusInputs :
        /\ tip_radius' = IF check_range(radius) = "ok" THEN radius ELSE tip_radius
        /\ last' = IF check_range(radius) = "ok" THEN "set" ELSE check_range(radius)
    /\ assigned' = assigned + 1
    /\ UNCHANGED <<shaft_type, tip_type, shaft_radius, shaft_length, tip_length, symmetric,
                   symmetric_bounds, shaft_datasets_normalized, tip_datasets_normalized,
                   output>>

\* shaft_length setter
SetShaftLength ==
    /\ assigned < MaxAssign
    /\ \E length \in ShaftLengthInputs :
        LET v == validate_array3(length)
        IN  /\ shaft_length' = IF v.status = "ok" THEN v.parts ELSE shaft_length
            /\ last' = IF v.status = "ok" THEN "set" ELSE v.status
    /\ assigned' = assigned + 1
    /\ UNCHANGED <<shaft_type, tip_type, shaft_radius, tip_radius, tip_length, symmetric,
                   symmetric_bounds, shaft_datasets_normalized, tip_datasets_normalized,
                   output>>

\* tip_length setter
SetTipLength ==
    /\ assigned < MaxAssign
    /\ \E length \in TipLengthInputs :
        LET v == validate_array3(length)
        IN  /\ tip_length' = IF v.status = "ok" THEN v.parts ELSE tip_length
            /\ last' = IF v.status = "ok" THEN "set" ELSE v.status
    /\ assigned' = assigned + 1
    /\ UNCHANGED <<shaft_type, tip_type, shaft_radius, tip_radius, shaft_length,
                   symmetric, symmetric_bounds, shaft_datasets_normalized,
                   tip_datasets_normalized, output>>

\* symmetric setter
SetSymmetric ==
    /\ assigned < MaxAssign
    /\ \E val \in BOOLEAN : symmetric' = val
    /\ last' = "set"
    /\ assigned' = assigned + 1
    /\ UNCHANGED <<shaft_type, tip_type, shaft_radius, tip_radius, shaft_length, tip_length,
                   symmetric_bounds, shaft_datasets_normalized, tip_datasets_normalized,
                   output>>

\* a plausible slip: the symmetric_bounds setter stores its value in both flags
SetSymmetricBoundsBoth ==
    /\ assigned < MaxAssign
    /\ \E val \in BOOLEAN : symmetric_bounds' = val /\ symmetric' = val
    /\ last' = "set"
    /\ assigned' = assigned + 1
    /\ UNCHANGED <<shaft_type, tip_type, shaft_radius, tip_radius, shaft_length, tip_length,
                   shaft_datasets_normalized, tip_datasets_normalized, output>>

\* symmetric_bounds setter
SetSymmetricBounds ==
    /\ assigned < MaxAssign
    /\ \E val \in BOOLEAN : symmetric_bounds' = val
    /\ last' = "set"
    /\ assigned' = assigned + 1
    /\ UNCHANGED <<shaft_type, tip_type, shaft_radius, tip_radius, shaft_length, tip_length,
                   symmetric, shaft_datasets_normalized, tip_datasets_normalized, output>>

\* a plausible slip: update works on the templates themselves, not on copies
UpdateNoCopy ==
    /\ output' = reset_shaft_and_tip_geometry
    /\ last' = "update"
    /\ shaft_datasets_normalized' = <<output'[1].mesh, output'[2].mesh, output'[3].mesh>>
    /\ tip_datasets_normalized' = <<output'[4].mesh, output'[5].mesh, output'[6].mesh>>
    /\ UNCHANGED <<assigned, axes_params>>

\* AxesGeometrySource.update
Update ==
    /\ output' = reset_shaft_and_tip_geometry
    /\ last' = "update"
    /\ UNCHANGED <<assigned, axes_params, shaft_datasets_normalized, tip_datasets_normalized>>

\* AxesGeometrySource.output (property): update(), then the stored composite is returned
Output ==
    /\ output' = reset_shaft_and_tip_geometry
    /\ last' = "output"
    /\ UNCHANGED <<assigned, axes_params, shaft_datasets_normalized, tip_datasets_normalized>>

(***************************************************************************)
(* The static part constructors, called on one argument.                   *)
(***************************************************************************)
\* what _make_any_part hands to _normalize_part
RawPart(g) ==
    IF g.tag = "str" THEN make_default_part(g.name).parts[1]
    ELSE IF g.cls = "PolyData" THEN g.mesh ELSE ExtractGeometry(g.mesh)

HasRawPart(g) ==
    \/ g.tag = "DataSet"
    \/ g.tag = "str" /\ make_default_part(g.name).status = "ok"

PartsInit ==
    /\ geometry \in GeometryInputs
    /\ triad = Unset
    /\ normalized = Unset
    /\ renormalized = Unset

PartsIdle ==
    /\ geometry = GeomOther
    /\ triad = Unset
    /\ normalized = Unset
    /\ renormalized = Unset

\* name, parts = AxesGeometrySource._make_axes_parts(geometry)
CallMakeAxesParts ==
    /\ triad = Unset
    /\ triad' = make_axes_parts(geometry)
    /\ geometry' = IF geometry.tag = "DataSet"
                   THEN [geometry EXCEPT !.mesh = make_any_part_argument(geometry)]
                   ELSE geometry
    /\ UNCHANGED <<normalized, renormalized>>

\* AxesGeometrySource._normalize_part(part)
CallNormalizePart ==
    /\ normalized = Unset
    /\ HasRawPart(geometry)
    /\ normalized' = normalize_part(RawPart(geometry))
    /\ UNCHANGED <<geometry, triad, renormalized>>

\* AxesGeometrySource._normalize_part applied to its own result
CallNormalizeAgain ==
    /\ normalized.status = "ok"
    /\ renormalized = Unset
    /\ renormalized' = normalize_part(normalized.parts[1])
    /\ UNCHANGED <<geometry, triad, normalized>>

(***************************************************************************)
(* CubeFacesSource.                                                        *)
(***************************************************************************)
\* an optional number: None or a value
None == [isset |-> FALSE, val |-> Zero]
Some(v) == [isset |-> TRUE, val |-> v]

\* CubeFacesSource._FaceIndex: position of each face among the cells of the cube
FaceIndex == [X_NEG |-> 0, X_POS |-> 1, Y_NEG |-> 2, Y_POS |-> 3, Z_NEG |-> 4, Z_POS |-> 5]

DEFAULT_NAMES == <<"+X", "-X", "+Y", "-Y", "+Z", "-Z">>

\* vtkCubeSource.SetXLength and its siblings clamp the length to [0, inf)
ClampLength(v) == IF RLt(v, Zero) THEN Zero ELSE v

\* CubeSource.output: 24 points (four per face) and six quads in the order
\* -X, +X, -Y, +Y, -Z, +Z
CubeSourceOutput(center, lengths) ==
    LET \* the corner of the box lo..hi with bits i, j, k
        corner(lo, hi, i, j, k) == << IF i = 0 THEN lo[1] ELSE hi[1],
                                      IF j = 0 THEN lo[2] ELSE hi[2],
                                      IF k = 0 THEN lo[3] ELSE hi[3] >>
        xface(lo, hi, b) == Tup([n \in 1..4 |-> corner(lo, hi, b, (n - 1) \div 2, (n - 1) % 2)])
        yface(lo, hi, b) == Tup([n \in 1..4 |-> corner(lo, hi, (n - 1) \div 2, b, (n - 1) % 2)])
        zface(lo, hi, b) == Tup([n \in 1..4 |-> corner(lo, hi, (n - 1) % 2, (n - 1) \div 2, b)])
        side(lo, hi, f) == IF f \div 2 = 0 THEN xface(lo, hi, f % 2)
                           ELSE IF f \div 2 = 1 THEN yface(lo, hi, f % 2)
                           ELSE zface(lo, hi, f % 2)
        box(lo, hi) ==
            [points |-> side(lo, hi, 0) \o side(lo, hi, 1) \o side(lo, hi, 2)
                        \o side(lo, hi, 3) \o side(lo, hi, 4) \o side(lo, hi, 5),
             faces |-> << <<0, 1, 3, 2>>, <<4, 6, 7, 5>>, <<8, 10, 11, 9>>,
                          <<12, 13, 15, 14>>, <<16, 17, 19, 18>>, <<20, 22, 23, 21>> >>]
        from(lo) == box(lo, Tup([k \in Axes3 |-> RAdd(lo[k], lengths[k])]))
    IN  from(Tup([k \in Axes3 |-> RSub(center[k], RMul(Half, lengths[k]))]))

\* cube_points[cube_faces[index]]: the four corners of one cell (a copy)
FacePoints(cube, index) ==
    Tup([j \in 1..4 |-> cube.points[cube.faces[index + 1][j] + 1]])

\* np.mean(points, axis=0)
Mean(pts) ==
    Tup([k \in Axes3 |->
        RDiv(RAdd(RAdd(pts[1][k], pts[2][k]), RAdd(pts[3][k], pts[4][k])), R(Len(pts), 1))])

\* np.linalg.norm of a vector with at most one non-zero component
Norm(v) == RAdd(RAbs(v[1]), RAdd(RAbs(v[2]), RAbs(v[3])))

\* update._scale_points: scale the points about origin_ by the per-axis factors
scale_points(points_, origin_, scale_) ==
    Tup([i \in 1..Len(points_) |-> VAdd(VMul(VSub(points_[i], origin_), scale_), origin_)])

\* a plausible slip: the copy of quad_points is forgotten, so that scaling the
\* inner points in place moves the outer points with them
create_frame_no_copy(quad_points, center, scale) ==
    LET frame(inner_points) ==
            LET quad1_points == <<inner_points[1], inner_points[2], inner_points[2], inner_points[1]>>
                quad2_points == <<inner_points[2], inner_points[3], inner_points[3], inner_points[2]>>
                quad3_points == <<inner_points[3], inner_points[4], inner_points[4], inner_points[3]>>
                quad4_points == <<inner_points[4], inner_points[1], inner_points[1], inner_points[4]>>
            IN  [points |-> quad1_points \o quad2_points \o quad3_points \o quad4_points,
                 faces |-> << <<0, 1, 2, 3>>, <<4, 5, 6, 7>>, <<8, 9, 10, 11>>,
                              <<12, 13, 14, 15>> >>]
    IN  frame(scale_points(quad_points, center, scale))

\* update._create_frame_from_quad_points
create_frame_from_quad_points(quad_points, center, scale) ==
    LET frame(inner_points) ==
            LET quad1_points == <<quad_points[1], quad_points[2], inner_points[2], inner_points[1]>>
                quad2_points == <<quad_points[2], quad_points[3], inner_points[3], inner_points[2]>>
                quad3_points == <<quad_points[3], quad_points[4], inner_points[4], inner_points[3]>>
                quad4_points == <<quad_points[4], quad_points[1], inner_points[1], inner_points[4]>>
            IN  [points |-> quad1_points \o quad2_points \o quad3_points \o quad4_points,
                 faces |-> << <<0, 1, 2, 3>>, <<4, 5, 6, 7>>, <<8, 9, 10, 11>>,
                              <<12, 13, 14, 15>> >>]
    IN  frame(scale_points(quad_points, center, scale))

\* a plausible slip: the faces are taken in the order of the cube's cells
\* (-X, +X, ...), not in the order of the names
face_points_cell_order(cube) ==
    << FacePoints(cube, FaceIndex.X_NEG), FacePoints(cube, FaceIndex.X_POS),
       FacePoints(cube, FaceIndex.Y_NEG), FacePoints(cube, FaceIndex.Y_POS),
       FacePoints(cube, FaceIndex.Z_NEG), FacePoints(cube, FaceIndex.Z_POS) >>

\* update: the list face_points, in the order +X, -X, +Y, -Y, +Z, -Z
face_points(cube) ==
    << FacePoints(cube, FaceIndex.X_POS), FacePoints(cube, FaceIndex.X_NEG),
       FacePoints(cube, FaceIndex.Y_POS), FacePoints(cube, FaceIndex.Y_NEG),
       FacePoints(cube, FaceIndex.Z_POS), FacePoints(cube, FaceIndex.Z_NEG) >>

\* a plausible slip: the faces are shrunk relative to their own size, as
\* DataSetFilters.shrink does
shrink_scale_relative(factor, lengths, min_length) == <<factor, factor, factor>>

\* update: shrink_factor + (1 - shrink_factor) * (1 - min_length / lengths)
shrink_scale(factor, lengths, min_length) ==
    Tup([k \in Axes3 |->
        RAdd(factor, RMul(RSub(One, factor), RSub(One, RDiv(min_length, lengths[k]))))])

\* a plausible slip: the direction is not divided by its norm, so that a face
\* moves in proportion to its distance from the center, as DataSetFilters.explode does
explode_vector_relative(direction, explode_scale) ==
    VMul(direction, <<explode_scale, explode_scale, explode_scale>>)

\* update: direction /= np.linalg.norm(direction); vector = direction * explode_scale
explode_vector(direction, explode_scale) ==
    LET unit(norm) == Tup([k \in Axes3 |-> RDiv(direction[k], norm)])
    IN  VMul(unit(Norm(direction)), <<explode_scale, explode_scale, explode_scale>>)

\* update: the body of the loop over the faces, for one face; frame_width_,
\* shrink_factor_ and explode_factor_ are the locals update reads once from
\* the properties before the loop
update_face(points, cube_center_, lengths, min_length, frame_width_, shrink_factor_, explode_factor_) ==
    LET shrunk(face_center) ==
            IF shrink_factor_.isset
            THEN scale_points(points, face_center,
                              shrink_scale(shrink_factor_.val, lengths, min_length))
            ELSE points
        explode_scale == RMul(min_length, explode_factor_.val)
        moved(pts, by) == Tup([i \in 1..Len(pts) |-> VAdd(pts[i], by)])
        exploded(pts, face_center) ==
            IF explode_factor_.isset
            THEN moved(pts, explode_vector(VSub(face_center, cube_center_), explode_scale))
            ELSE pts
        frame_scale ==
            Tup([k \in Axes3 |->
                RSub(One, RDiv(RMul(frame_width_.val, min_length), lengths[k]))])
        framed(pts, face_center) ==
            IF frame_width_.isset
            THEN create_frame_from_quad_points(pts, face_center, frame_scale)
            ELSE [points |-> pts, faces |-> << <<0, 1, 2, 3>> >>]
        \* face_center is computed once, before the points are shrunk and exploded
        face(face_center) == framed(exploded(shrunk(face_center), face_center), face_center)
    IN  face(Mean(points))

\* CubeFacesSource.update for a source holding the given parameters: the
\* content of _output after the loop
cube_faces_update(center, cube_lengths_, frame_width_, shrink_factor_, explode_factor_, names_) ==
    LET blocks(faces, cube_center_, lengths, min_length) ==
            Tup([index \in 1..6 |->
                [name |-> names_[index],
                 mesh |-> update_face(faces[index], cube_center_, lengths, min_length,
                                      frame_width_, shrink_factor_, explode_factor_)]])
        measured(cube, lengths) ==
            blocks(face_points(cube), Center(cube), lengths,
                   RMin(lengths[1], RMin(lengths[2], lengths[3])))
        edge_lengths(bnds) == Tup([k \in Axes3 |-> RAbs(RSub(bnds[k][2], bnds[k][1]))])
        faces_of(cube) == measured(cube, edge_lengths(Bounds(cube)))
    IN  faces_of(CubeSourceOutput(center, cube_lengths_))

\* a plausible slip: once the output holds faces, update works on the points
\* stored in the output, not on the faces of a newly generated cube, so that
\* shrinking and exploding compound from one update to the next
cube_update_compounding ==
    LET stored(m) == IF NPoints(m) = 16
                     THEN <<m.points[1], m.points[2], m.points[6], m.points[10]>>
                     ELSE m.points
        blocks(min_length) ==
            Tup([index \in 1..6 |->
                [name |-> names[index],
                 mesh |-> update_face(stored(cube_output[index].mesh), cube_center,
                                      cube_lengths, min_length,
                                      frame_width, shrink_factor, explode_factor)]])
    IN  IF NPoints(cube_output[1].mesh) = 0
        THEN cube_faces_update(cube_center, cube_lengths, frame_width, shrink_factor,
                               explode_factor, names)
        ELSE blocks(RMin(cube_lengths[1], RMin(cube_lengths[2], cube_lengths[3])))

\* CubeFacesSource.update: the new content of _output
cube_update ==
    cube_faces_update(cube_center, cube_lengths, frame_width, shrink_factor, explode_factor,
                      names)

\* _validation.validate_number(value, must_be_in_range=[lo, hi])
validate_number(value, lo, hi) ==
    IF RLt(value, lo) \/ RLt(hi, value) THEN "ValueError" ELSE "ok"

\* a names argument: a list/tuple (or something else) of items, each a string or not
NamesArg(islist, items) == [islist |-> islist, items |-> items]
Str(s) == [isstr |-> TRUE, s |-> s]
NotStr == [isstr |-> FALSE, s |-> ""]

\* a plausible slip: three names are expanded as all the '+' names followed by
\* all the '-' names
valid_names_grouped(arg) ==
    IF ~arg.islist THEN Raise("TypeError", <<>>)
    ELSE IF \E i \in 1..Len(arg.items) : ~arg.items[i].isstr THEN Raise("TypeError", <<>>)
    ELSE IF Len(arg.items) \notin {3, 6} THEN Raise("ValueError", <<>>)
    ELSE IF Len(arg.items) = 6 THEN Ok("", Tup([i \in 1..6 |-> arg.items[i].s]))
    ELSE Ok("", << "+" \o arg.items[1].s, "+" \o arg.items[2].s,
                   "+" \o arg.items[3].s, "-" \o arg.items[1].s,
                   "-" \o arg.items[2].s, "-" \o arg.items[3].s >>)

\* names setter: the validated names, or the error raised
valid_names(arg) ==
    IF ~arg.islist THEN Raise("TypeError", <<>>)
    ELSE IF \E i \in 1..Len(arg.items) : ~arg.items[i].isstr THEN Raise("TypeError", <<>>)
    ELSE IF Len(arg.items) \notin {3, 6} THEN Raise("ValueError", <<>>)
    ELSE IF Len(arg.items) = 6 THEN Ok("", Tup([i \in 1..6 |-> arg.items[i].s]))
    ELSE Ok("", << "+" \o arg.items[1].s, "-" \o arg.items[1].s,
                   "+" \o arg.items[2].s, "-" \o arg.items[2].s,
                   "+" \o arg.items[3].s, "-" \o arg.items[3].s >>)

\* arguments the callers pass
CenterInputs == {PI(0, 0, 0), PI(1, 2, 3)}
LengthInputs == {R(1, 1), R(2, 1), R(3, 1)}
BoundsInputs == {<<R(-1, 1), R(1, 1), R(0, 1), R(4, 1), R(2, 1), R(3, 1)>>}
FrameWidthInputs == {None, Some(Zero), Some(R(1, 5)), Some(One), Some(R(-1, 10)), Some(R(11, 10))}
ShrinkFactorInputs == {None, Some(Zero), Some(R(1, 2)), Some(One), Some(R(2, 1)), Some(R(-1, 2))}
ExplodeFactorInputs == {None, Some(Zero), Some(R(1, 2)), Some(R(-1, 2))}
NamesInputs ==
    {NamesArg(TRUE, <<Str("U"), Str("V"), Str("W")>>),
     NamesArg(TRUE, <<Str("right"), Str("left"), Str("anterior"), Str("posterior"),
                      Str("superior"), Str("inferior")>>),
     NamesArg(TRUE, <<Str("U"), Str("V")>>),
     NamesArg(TRUE, <<Str("U"), NotStr, Str("W")>>),
     NamesArg(FALSE, <<>>)}

\* CubeFacesSource.__init__ called with x_length and the default values of its
\* other arguments
CubeConstruct(x_length) ==
    /\ cube_center = PI(0, 0, 0)
    /\ cube_lengths = <<ClampLength(x_length), One, One>>
    /\ frame_width = None
    /\ shrink_factor = None
    /\ explode_factor = None
    /\ names = DEFAULT_NAMES
    /\ cube_output = Tup([i \in 1..6 |-> [name |-> "Block-0" \o ToString(i - 1),
                                          mesh |-> EmptyMesh]])
    /\ cube_last = "init"
    /\ cube_assigned = 0

\* CubeFacesSource.__init__ with its default arguments
CubeInit == CubeConstruct(One)

\* the x_length arguments the callers construct a source with
XLengthArgs == {One, R(2, 1)}

\* center setter
SetCenter ==
    /\ cube_assigned < MaxCubeAssign
    /\ \E center \in CenterInputs : cube_center' = center
    /\ cube_last' = "set"
    /\ cube_assigned' = cube_assigned + 1
    /\ UNCHANGED <<cube_lengths, frame_width, shrink_factor, explode_factor, names, cube_output>>

\* x_length, y_length and z_length setters
SetLength ==
    /\ cube_assigned < MaxCubeAssign
    /\ \E k \in Axes3, length \in LengthInputs :
        cube_lengths' = [cube_lengths EXCEPT ![k] = ClampLength(length)]
    /\ cube_last' = "set"
    /\ cube_assigned' = cube_assigned + 1
    /\ UNCHANGED <<cube_center, frame_width, shrink_factor, explode_factor, names, cube_output>>

\* bounds setter (vtkCubeSource.SetBounds)
SetBounds ==
    /\ cube_assigned < MaxCubeAssign
    /\ \E bounds \in BoundsInputs :
        /\ cube_lengths' = << ClampLength(RSub(bounds[2], bounds[1])),
                              ClampLength(RSub(bounds[4], bounds[3])),
                              ClampLength(RSub(bounds[6], bounds[5])) >>
        /\ cube_center' = << RMul(Half, RAdd(bounds[2], bounds[1])),
                             RMul(Half, RAdd(bounds[4], bounds[3])),
                             RMul(Half, RAdd(bounds[6], bounds[5])) >>
    /\ cube_last' = "set"
    /\ cube_assigned' = cube_assigned + 1
    /\ UNCHANGED <<frame_width, shrink_factor, explode_factor, names, cube_output>>

\* frame_width setter
SetFrameWidth ==
    /\ cube_assigned < MaxCubeAssign
    /\ \E width \in FrameWidthInputs :
        LET st == IF width.isset THEN validate_number(width.val, Zero, One) ELSE "ok"
        IN  /\ frame_width' = IF st = "ok" THEN width ELSE frame_width
            /\ cube_last' = IF st = "ok" THEN "set" ELSE st
    /\ cube_assigned' = cube_assigned + 1
    /\ UNCHANGED <<cube_center, cube_lengths, shrink_factor, explode_factor, names, cube_output>>

\* shrink_factor setter
SetShrinkFactor ==
    /\ cube_assigned < MaxCubeAssign
    /\ \E factor \in ShrinkFactorInputs :
        LET st == IF factor.isset /\ RLt(factor.val, Zero) THEN "ValueError" ELSE "ok"
        IN  /\ shrink_factor' = IF st = "ok" THEN factor ELSE shrink_factor
            /\ cube_last' = IF st = "ok" THEN "set" ELSE st
    /\ cube_assigned' = cube_assigned + 1
    /\ UNCHANGED <<cube_center, cube_lengths, frame_width, explode_factor, names, cube_output>>

\* explode_factor setter
SetExplodeFactor ==
    /\ cube_assigned < MaxCubeAssign
    /\ \E factor \in ExplodeFactorInputs : explode_factor' = factor
    /\ cube_last' = "set"
    /\ cube_assigned' = cube_assigned + 1
    /\ UNCHANGED <<cube_center, cube_lengths, frame_width, shrink_factor, names, cube_output>>

\* names setter
SetNames ==
    /\ cube_assigned < MaxCubeAssign
    /\ \E arg \in NamesInputs :
        LET v == valid_names(arg)
        IN  /\ names' = IF v.status = "ok" THEN v.parts ELSE names
            /\ cube_last' = IF v.status = "ok" THEN "set" ELSE v.status
    /\ cube_assigned' = cube_assigned + 1
    /\ UNCHANGED <<cube_center, cube_lengths, frame_width, shrink_factor, explode_factor,
                   cube_output>>

\* CubeFacesSource.update
CubeUpdate ==
    /\ cube_output' = cube_update
    /\ cube_last' = "update"
    /\ UNCHANGED <<cube_assigned, cube_params>>

\* CubeFacesSource.output (property): update(), then the stored composite is returned
CubeOutput ==
    /\ cube_output' = cube_update
    /\ cube_last' = "output"
    /\ UNCHANGED <<cube_assigned, cube_params>>

(***************************************************************************)
(* A caller that reads the output property of a source and keeps what it   *)
(* is handed.  A composite is an object: the caller holds a reference, and *)
(* what the reference shows is the content of the object it names.         *)
(***************************************************************************)
NoObject == [ref |-> "none", taken |-> <<>>]

\* a plausible slip: the accessor hands out a copy of the stored composite
output_returned_copy(content) == [ref |-> "copy", taken |-> content]

\* `return self._output`: the object stored in the source, with content as
\* it stands at the return
output_returned(content) == [ref |-> "_output", taken |-> content]

\* what the caller sees in the object it holds, the source's _output holding `internal`
Deref(h, internal) == IF h.ref = "_output" THEN internal ELSE h.taken

\* the caller reads axes.output and keeps the object of the first read
KeepOutput ==
    /\ Output
    /\ held' = IF held.ref = "none" THEN output_returned(output') ELSE held

\* the caller reads cube_faces.output and keeps the object of the first read
KeepCubeOutput ==
    /\ CubeOutput
    /\ held' = IF held.ref = "none" THEN output_returned(cube_output') ELSE held

(***************************************************************************)
(* CompositeFilters.transform on a composite of named blocks.  A block is  *)
(* None or a dataset; datasets are objects, so that a composite holds      *)
(* references into a store of datasets and a shallow copy shares them.     *)
(* Transformations are translations.                                       *)
(***************************************************************************)
MaxBlocks == 3
MaxCalls == 2

NoneBlock == [tag |-> "None", points |-> <<>>]
PointSet == [tag |-> "DataSet", points |-> <<<<Zero, Zero, Zero>>, <<One, Zero, Zero>>>>]
BlockNames == {"a", "b"}
Blocks == [name : BlockNames, data : {NoneBlock, PointSet}]
Composites == UNION {[1..n -> Blocks] : n \in 0..MaxBlocks}
Translations == {<<One, Zero, Zero>>, <<Zero, Half, Zero>>}

\* DataSetFilters.transform with a translation: every point is moved by trans
dataset_transform(data, trans) ==
    [tag |-> "DataSet",
     points |-> Tup([j \in 1..Len(data.points) |->
                    Tup([k \in Axes3 |-> RAdd(data.points[j][k], trans[k])])])]

\* composite[name]: the index of a block of that name.  With several blocks
\* of one name the lookup settles on one of them, the first or the last,
\* the same one at every lookup.
index_by_name(composite, name, lookup) ==
    LET matches == {i \in 1..Len(composite) : composite[i].name = name}
    IN  IF lookup = "first" THEN CHOOSE i \in matches : \A j \in matches : i <= j
        ELSE CHOOSE i \in matches : \A j \in matches : j <= i

\* one pass of the loop over self.keys(): st holds the store of datasets and
\* the references of self and of multi (0 is None)
transform_step(st, names_, k, trans, inplace, lookup) ==
    LET i == index_by_name(names_, names_[k].name, lookup)
        ref == st.multi[i]
    IN  IF st.self[i] = 0 THEN st
        ELSE IF inplace
        THEN [st EXCEPT !.store[ref] = dataset_transform(st.store[ref], trans)]
        ELSE [st EXCEPT !.store = Append(st.store, dataset_transform(st.store[ref], trans)),
                        !.multi[i] = Len(st.store) + 1]

RECURSIVE transform_loop(_, _, _, _, _, _)
transform_loop(st, names_, k, trans, inplace, lookup) ==
    IF k > Len(names_) THEN st
    ELSE transform_loop(transform_step(st, names_, k, trans, inplace, lookup),
                        names_, k + 1, trans, inplace, lookup)

\* the blocks a composite of references shows
Shown(composite, refs, store) ==
    Tup([i \in 1..Len(composite) |->
        [name |-> composite[i].name,
         data |-> IF refs[i] = 0 THEN NoneBlock ELSE store[refs[i]]]])

\* transform(trans, inplace=inplace) called on composite: what the composite
\* holds after the call, what the returned composite holds, and whether the
\* returned composite is the one the method was called on
composite_transform(composite, trans, inplace, lookup) ==
    LET n == Len(composite)
        store == Tup([i \in 1..n |-> composite[i].data])
        refs == Tup([i \in 1..n |-> IF composite[i].data = NoneBlock THEN 0 ELSE i])
        result(st) ==
            [self |-> Shown(composite, IF inplace THEN st.multi ELSE st.self, st.store),
             multi |-> Shown(composite, st.multi, st.store),
             same |-> inplace]
    IN  result(transform_loop([store |-> store, self |-> refs, multi |-> refs],
                              composite, 1, trans, inplace, lookup))

\* the value of inplace in a call that does not pass it
InplaceDefault == TRUE

NoCall == [calls |-> 0, inplace |-> "none", trans |-> <<Zero, Zero, Zero>>, before |-> <<>>,
           returned |-> <<>>, same |-> FALSE]

CompositeIdle == mb = <<>> /\ transformed = NoCall

CompositeInit == mb \in Composites /\ transformed = NoCall

Call(trans, passed, inplace, lookup) ==
    \E r \in {composite_transform(mb, trans, inplace, lookup)} :
        /\ mb' = r.self
        /\ transformed' = [calls |-> transformed.calls + 1, inplace |-> passed, trans |-> trans,
                           before |-> mb, returned |-> r.multi, same |-> r.same]

\* mb.transform(trans)
TransformDefault ==
    /\ transformed.calls < MaxCalls
    /\ \E trans \in Translations, lookup \in {"first", "last"} :
           Call(trans, "default", InplaceDefault, lookup)

\* mb.transform(trans, inplace=inplace)
TransformInplace ==
    /\ transformed.calls < MaxCalls
    /\ \E trans \in Translations, inplace \in BOOLEAN, lookup \in {"first", "last"} :
           Call(trans, IF inplace THEN "True" ELSE "False", inplace, lookup)

(***************************************************************************)
(* OrthogonalPlanesSource: three PlaneSource objects, each given by its    *)
(* origin and the two points that span it, and the stored normal signs.    *)
(***************************************************************************)
MaxPlanesAssign == 3

ORIGIN == <<Zero, Zero, Zero>>

\* vtkPlaneSource keeps Center at Origin + (v1 + v2) / 2 whenever a spanning point is set
UpdatePlane(source) ==
    [source EXCEPT !.center =
        Tup([k \in Axes3 |->
            RAdd(source.origin[k],
                 RMul(Half, RAdd(RSub(source.point_a[k], source.origin[k]),
                                 RSub(source.point_b[k], source.origin[k]))))])]

\* PlaneSource.point_a setter (SetPoint1)
set_point_a(source, point) ==
    IF source.point_a = point THEN source ELSE UpdatePlane([source EXCEPT !.point_a = point])

\* PlaneSource.point_b setter (SetPoint2)
set_point_b(source, point) ==
    IF source.point_b = point THEN source ELSE UpdatePlane([source EXCEPT !.point_b = point])

\* PlaneSource.origin setter (SetOrigin)
set_origin(source, point) == [source EXCEPT !.origin = point]

\* PlaneSource.center setter (SetCenter): the plane is moved, its spanning vectors kept
set_center(source, point) ==
    IF source.center = point THEN source
    ELSE LET moved(origin_) ==
                 [origin |-> origin_,
                  point_a |-> VAdd(origin_, VSub(source.point_a, source.origin)),
                  point_b |-> VAdd(origin_, VSub(source.point_b, source.origin)),
                  center |-> point]
         IN  moved(Tup([k \in Axes3 |->
                 RSub(point[k],
                      RMul(Half, RAdd(RSub(source.point_a[k], source.origin[k]),
                                      RSub(source.point_b[k], source.origin[k]))))]))

RSign(a) == IF a[1] > 0 THEN One ELSE IF a[1] < 0 THEN RNeg(One) ELSE Zero

\* PlaneSource.normal: the cross product of the spanning vectors, divided by
\* its norm (the spanning vectors are parallel to coordinate axes, so the
\* unit vector holds the signs of the components), +z when the norm is 0
plane_normal(source) ==
    LET cross(v1, v2) ==
            <<RSub(RMul(v1[2], v2[3]), RMul(v1[3], v2[2])),
              RSub(RMul(v1[3], v2[1]), RMul(v1[1], v2[3])),
              RSub(RMul(v1[1], v2[2]), RMul(v1[2], v2[1]))>>
        unit(normal) ==
            IF normal = <<Zero, Zero, Zero>> THEN <<Zero, Zero, One>>
            ELSE <<RSign(normal[1]), RSign(normal[2]), RSign(normal[3])>>
    IN  unit(cross(VSub(source.point_a, source.origin), VSub(source.point_b, source.origin)))

\* PlaneSource.flip_normal: point_a and point_b are swapped
flip_normal(source) ==
    LET swap(point_a) == set_point_b(set_point_a(source, source.point_b), point_a)
    IN  swap(source.point_a)

\* PlaneSource(): the default plane
PlaneSourceInit ==
    [origin |-> <<RNeg(Half), RNeg(Half), Zero>>,
     point_a |-> <<Half, RNeg(Half), Zero>>,
     point_b |-> <<RNeg(Half), Half, Zero>>,
     center |-> <<Zero, Zero, Zero>>]

\* `Modify sources` of the normal_sign setter
modify_sources_sign(sources_, valid_sign) ==
    Tup([i \in 1..3 |->
        LET has_positive_normal == RLt(Zero, plane_normal(sources_[i])[i])
        IN  IF has_positive_normal /\ valid_sign[i] = "-" THEN flip_normal(sources_[i])
            ELSE sources_[i]])

\* `Modify sources` of the bounds setter
modify_sources_bounds(sources_, b) ==
    LET x_size == RSub(b[2], b[1])
        y_size == RSub(b[4], b[3])
        z_size == RSub(b[6], b[5])
        center == <<RMul(Half, RAdd(b[2], b[1])), RMul(Half, RAdd(b[4], b[3])),
                    RMul(Half, RAdd(b[6], b[5]))>>
        place(source, point_a, point_b) ==
            set_center(set_origin(set_point_b(set_point_a(source, point_a), point_b), ORIGIN),
                       center)
    IN  <<place(sources_[1], <<Zero, y_size, Zero>>, <<Zero, Zero, z_size>>),
          place(sources_[2], <<Zero, Zero, z_size>>, <<x_size, Zero, Zero>>),
          place(sources_[3], <<x_size, Zero, Zero>>, <<Zero, y_size, Zero>>)>>

\* the normal_sign argument as a tuple of three signs
valid_sign_of(sign) ==
    IF sign.isstr THEN <<sign.val[1], sign.val[1], sign.val[1]>> ELSE sign.val

\* '+', '-' and the eight sequences of three signs
SignArgs ==
    [isstr : {TRUE}, val : [1..1 -> {"+", "-"}]] \cup [isstr : {FALSE}, val : [1..3 -> {"+", "-"}]]

BoundsArgs ==
    {<<RNeg(One), One, RNeg(One), One, RNeg(One), One>>,
     <<Zero, R(2, 1), Zero, One, RNeg(One), One>>,
     <<RNeg(One), Zero, R(2, 1), R(3, 1), Zero, Half>>}

\* OrthogonalPlanesSource(): bounds, then normal_sign, on three default planes
PlanesInit ==
    /\ planes_bounds = <<RNeg(One), One, RNeg(One), One, RNeg(One), One>>
    /\ normal_sign = <<"+", "+", "+">>
    /\ sources = modify_sources_sign(
                     modify_sources_bounds(<<PlaneSourceInit, PlaneSourceInit, PlaneSourceInit>>,
                                           <<RNeg(One), One, RNeg(One), One, RNeg(One), One>>),
                     <<"+", "+", "+">>)
    /\ planes_assigned = 0

\* normal_sign setter
SetNormalSign ==
    /\ planes_assigned < MaxPlanesAssign
    /\ \E sign \in SignArgs :
           /\ normal_sign' = valid_sign_of(sign)
           /\ sources' = modify_sources_sign(sources, valid_sign_of(sign))
    /\ planes_assigned' = planes_assigned + 1
    /\ UNCHANGED planes_bounds

\* bounds setter
SetPlanesBounds ==
    /\ planes_assigned < MaxPlanesAssign
    /\ \E bounds \in BoundsArgs :
           /\ planes_bounds' = bounds
           /\ sources' = modify_sources_bounds(sources, bounds)
    /\ planes_assigned' = planes_assigned + 1
    /\ UNCHANGED normal_sign

(***************************************************************************)
(* Text3DSource: the declared parameters, the modified flag and the output.*)
(* The mesh is built by VTK from the text and the parameters; the output   *)
(* is kept as what update() hands to that pipeline on the path it takes.   *)
(***************************************************************************)
MaxTextAssign == 3

StringOf(val) == [isset |-> TRUE, val |-> val]
NoString == [isset |-> FALSE, val |-> ""]

DeclaredNames == {"string", "width", "height", "depth", "center", "normal", "process_empty_string"}
SizeNames == {"width", "height", "depth"}

\* the value a setter stores: the string setter turns None into ""
stored_value(name, value) ==
    IF name = "string" /\ ~value.isset THEN StringOf("") ELSE value

\* whether a setter raises: width, height and depth are checked against [0, inf) unless None
setter_raises(name, value) ==
    name \in SizeNames /\ value.isset /\ check_range(value.val) # "ok"

\* a plausible slip: the value is stored and the flag is left as it is
text_setattr_no_flag(params, modified, name, value) ==
    IF name \notin DeclaredNames
    THEN [text |-> params, modified |-> modified, status |-> "AttributeError"]
    ELSE IF params[name] = value
    THEN [text |-> params, modified |-> modified, status |-> "same"]
    ELSE IF setter_raises(name, value)
    THEN [text |-> params, modified |-> modified, status |-> "ValueError"]
    ELSE [text |-> [params EXCEPT ![name] = stored_value(name, value)],
          modified |-> modified, status |-> "set"]

\* Text3DSource.__setattr__(name, value) on a constructed source
text_setattr(params, modified, name, value) ==
    IF name \notin DeclaredNames
    THEN [text |-> params, modified |-> modified, status |-> "AttributeError"]
    ELSE IF params[name] = value
    THEN [text |-> params, modified |-> modified, status |-> "same"]
    ELSE IF setter_raises(name, value)
    THEN [text |-> params, modified |-> modified, status |-> "ValueError"]
    ELSE [text |-> [params EXCEPT ![name] = stored_value(name, value)],
          modified |-> TRUE, status |-> "set"]

EmptyText == [string |-> "", filters |-> "", single_point |-> FALSE,
              scale |-> <<>>, place |-> <<>>, rotated |-> FALSE]

\* what update() builds when the flag is set
text_mesh(params) ==
    LET is_empty_string == params.string.val \in {"", " "}
        is_2d == \/ params.depth = Some(Zero)
                 \/ (~params.depth.isset /\ params.height = Some(Zero))
    IN  [string |-> params.string.val,
         filters |-> IF is_empty_string \/ is_2d THEN "none" ELSE "extrude, triangle",
         single_point |-> is_empty_string /\ params.process_empty_string,
         scale |-> <<params.width, params.height, params.depth>>,
         place |-> <<params.center, params.normal>>,
         rotated |-> params.normal # <<Zero, Zero, One>>]

\* Text3DSource(): string "", no sizes, center at the origin, normal +z
TextInit ==
    /\ text = [string |-> StringOf(""), width |-> None, height |-> None, depth |-> None,
               center |-> <<Zero, Zero, Zero>>, normal |-> <<Zero, Zero, One>>,
               process_empty_string |-> TRUE]
    /\ text_modified = TRUE
    /\ text_output = EmptyText
    /\ text_last = [op |-> "init", name |-> "", status |-> ""]
    /\ text_assigned = 0

StringArgs == {StringOf(""), StringOf(" "), StringOf("ab"), NoString}
SizeArgs == {None, Some(Zero), Some(R(2, 1)), Some(RNeg(One))}
VectorArgs == {<<Zero, Zero, Zero>>, <<Zero, Zero, One>>, <<One, Zero, Zero>>}

Assign(name, value) ==
    \E r \in {text_setattr(text, text_modified, name, value)} :
        /\ text' = r.text
        /\ text_modified' = r.modified
        /\ text_last' = [op |-> "setattr", name |-> name, status |-> r.status]
        /\ text_assigned' = text_assigned + 1
        /\ UNCHANGED text_output

\* source.<name> = value
TextSetAttr ==
    /\ text_assigned < MaxTextAssign
    /\ \/ \E value \in StringArgs : Assign("string", value)
       \/ \E name \in SizeNames, value \in SizeArgs : Assign(name, value)
       \/ \E name \in {"center", "normal"}, value \in VectorArgs : Assign(name, value)
       \/ \E value \in BOOLEAN : Assign("process_empty_string", value)
       \/ \E value \in SizeArgs : Assign("size", value)

\* Text3DSource.update
TextUpdate ==
    /\ text_output' = IF text_modified THEN text_mesh(text) ELSE text_output
    /\ text_modified' = FALSE
    /\ text_last' = [op |-> "update", name |-> "",
                     status |-> IF text_modified THEN "recomputed" ELSE "kept"]
    /\ UNCHANGED <<text, text_assigned>>

\* Text3DSource.output (property): update(), then the stored mesh is returned
TextOutput ==
    /\ text_output' = IF text_modified THEN text_mesh(text) ELSE text_output
    /\ text_modified' = FALSE
    /\ text_last' = [op |-> "output", name |-> "",
                     status |-> IF text_modified THEN "recomputed" ELSE "kept"]
    /\ UNCHANGED <<text, text_assigned>>

(***************************************************************************)
(* render_pick_data on one pixel of the value buffer.                      *)
(***************************************************************************)
MaxPickId == 65535
PickStride == 257

NaN == [isnan |-> TRUE, val |-> 0]
Value(v) == [isnan |-> FALSE, val |-> v]

\* the pick ids rendered: every PickStride-th id and the ids next to the
\* limits of a byte and of a signed 16-bit integer
PickIds ==
    {i \in 0..MaxPickId : i % PickStride = 0}
        \cup {1, 2^8 - 1, 2^8, 2^15 - 1, 2^15, 2^15 + 1, 2^16 - 2^8, 2^16 - 1}

\* what a conversion of a float beyond the int16 range yields is not defined
\* by the language: the low 16 bits of the integer, the largest, or the
\* smallest int16, according to the build
Int16Casts == {"wrap", "saturate", "min"}

\* np_buffer.astype(np.int16) on an integral float
astype_int16(v, cast) ==
    IF -(2^15) <= v /\ v < 2^15 THEN v
    ELSE IF cast = "wrap" THEN ((v + 2^15) % 2^16) - 2^15
    ELSE IF cast = "saturate" THEN 2^15 - 1
    ELSE -(2^15)

\* x & 0xFF on a two's complement integer
AndFF(x) == x % 2^8

\* x >> 8 on a signed integer: the arithmetic shift
ShiftRight8(x) == x \div 2^8

\* render_pick_data, per pixel
render_pick_data(pixel, cast) ==
    LET pack(as_int16) == <<AndFF(as_int16), AndFF(ShiftRight8(as_int16)), 0, 0>>
    IN  pack(astype_int16(IF pixel.isnan THEN 0 ELSE pixel.val, cast))

NoPixel == <<>>

PickIdle == np_buffer = NaN /\ pick_buffer = NoPixel

PickInit == np_buffer \in {NaN} \cup {Value(v) : v \in PickIds} /\ pick_buffer = NoPixel

RenderPickData ==
    /\ pick_buffer = NoPixel
    /\ \E cast \in Int16Casts : pick_buffer' = render_pick_data(np_buffer, cast)
    /\ UNCHANGED np_buffer

vars == <<geometry, triad, normalized, renormalized, shaft_type, tip_type, shaft_radius,
          tip_radius, shaft_length, tip_length, symmetric, symmetric_bounds,
          shaft_datasets_normalized, tip_datasets_normalized, output, last, assigned,
          cube_center, cube_lengths, frame_width, shrink_factor, explode_factor, names,
          cube_output, cube_last, cube_assigned, held, mb, transformed,
          sources, normal_sign, planes_bounds, planes_assigned,
          text, text_modified, text_output, text_last, text_assigned,
          np_buffer, pick_buffer>>

\* nothing but the sources of this section is in use
OtherIdle == held = NoObject /\ CompositeIdle /\ PlanesInit /\ TextInit /\ PickIdle

Init == AxesInit /\ PartsIdle /\ CubeInit /\ OtherIdle

Next ==
    \/ SetShaftType /\ UNCHANGED <<part_vars, cube_vars, other_vars>>
    \/ SetTipType /\ UNCHANGED <<part_vars, cube_vars, other_vars>>
    \/ SetShaftRadius /\ UNCHANGED <<part_vars, cube_vars, other_vars>>
    \/ SetTipRadius /\ UNCHANGED <<part_vars, cube_vars, other_vars>>
    \/ SetShaftLength /\ UNCHANGED <<part_vars, cube_vars, other_vars>>
    \/ SetTipLength /\ UNCHANGED <<part_vars, cube_vars, other_vars>>
    \/ SetSymmetric /\ UNCHANGED <<part_vars, cube_vars, other_vars>>
    \/ SetSymmetricBounds /\ UNCHANGED <<part_vars, cube_vars, other_vars>>
    \/ Update /\ UNCHANGED <<part_vars, cube_vars, other_vars>>
    \/ Output /\ UNCHANGED <<part_vars, cube_vars, other_vars>>

Spec == Init /\ [][Next]_vars

PartsNext ==
    \/ CallMakeAxesParts /\ UNCHANGED <<axes_vars, cube_vars, other_vars>>
    \/ CallNormalizePart /\ UNCHANGED <<axes_vars, cube_vars, other_vars>>
    \/ CallNormalizeAgain /\ UNCHANGED <<axes_vars, cube_vars, other_vars>>

PartsSpecInit == AxesInit /\ CubeInit /\ PartsInit /\ OtherIdle

PartsSpec == PartsSpecInit /\ [][PartsNext]_vars

CubeNext ==
    \/ SetCenter /\ UNCHANGED <<part_vars, axes_vars, other_vars>>
    \/ SetLength /\ UNCHANGED <<part_vars, axes_vars, other_vars>>
    \/ SetBounds /\ UNCHANGED <<part_vars, axes_vars, other_vars>>
    \/ SetFrameWidth /\ UNCHANGED <<part_vars, axes_vars, other_vars>>
    \/ SetShrinkFactor /\ UNCHANGED <<part_vars, axes_vars, other_vars>>
    \/ SetExplodeFactor /\ UNCHANGED <<part_vars, axes_vars, other_vars>>
    \/ SetNames /\ UNCHANGED <<part_vars, axes_vars, other_vars>>
    \/ CubeUpdate /\ UNCHANGED <<part_vars, axes_vars, other_vars>>
    \/ CubeOutput /\ UNCHANGED <<part_vars, axes_vars, other_vars>>

CubeSpecInit ==
    AxesInit /\ PartsIdle /\ OtherIdle /\ \E x_length \in XLengthArgs : CubeConstruct(x_length)

CubeSpec == CubeSpecInit /\ [][CubeNext]_vars

\* The setters that check a range, with update, of one source of either class.
\* The two sources share no state: a behaviour works on the one or on the other.
AxesUntouched == last = "init" /\ assigned = 0
CubeUntouched == cube_last = "init" /\ cube_assigned = 0

RangeNext ==
    \/ CubeUntouched /\ SetShaftRadius /\ UNCHANGED <<part_vars, cube_vars, other_vars>>
    \/ CubeUntouched /\ SetTipRadius /\ UNCHANGED <<part_vars, cube_vars, other_vars>>
    \/ CubeUntouched /\ SetShaftLength /\ UNCHANGED <<part_vars, cube_vars, other_vars>>
    \/ CubeUntouched /\ SetTipLength /\ UNCHANGED <<part_vars, cube_vars, other_vars>>
    \/ CubeUntouched /\ Update /\ UNCHANGED <<part_vars, cube_vars, other_vars>>
    \/ AxesUntouched /\ SetFrameWidth /\ UNCHANGED <<part_vars, axes_vars, other_vars>>
    \/ AxesUntouched /\ SetShrinkFactor /\ UNCHANGED <<part_vars, axes_vars, other_vars>>
    \/ AxesUntouched /\ CubeUpdate /\ UNCHANGED <<part_vars, axes_vars, other_vars>>

RangeSpecInit == AxesInit /\ PartsIdle /\ CubeInit /\ OtherIdle

RangeSpec == RangeSpecInit /\ [][RangeNext]_vars

\* One source of either class and a caller that keeps the first output.
CallerNext ==
    \/ CubeUntouched /\ SetShaftLength /\ UNCHANGED <<part_vars, cube_vars, other_vars>>
    \/ CubeUntouched /\ SetSymmetric /\ UNCHANGED <<part_vars, cube_vars, other_vars>>
    \/ CubeUntouched /\ Update /\ UNCHANGED <<part_vars, cube_vars, other_vars>>
    \/ CubeUntouched /\ KeepOutput
           /\ UNCHANGED <<part_vars, cube_vars, composite_vars, planes_vars, text_vars, pick_vars>>
    \/ AxesUntouched /\ SetExplodeFactor /\ UNCHANGED <<part_vars, axes_vars, other_vars>>
    \/ AxesUntouched /\ SetNames /\ UNCHANGED <<part_vars, axes_vars, other_vars>>
    \/ AxesUntouched /\ CubeUpdate /\ UNCHANGED <<part_vars, axes_vars, other_vars>>
    \/ AxesUntouched /\ KeepCubeOutput
           /\ UNCHANGED <<part_vars, axes_vars, composite_vars, planes_vars, text_vars, pick_vars>>

CallerSpecInit ==
    AxesInit /\ PartsIdle /\ CubeInit /\ held = NoObject /\ CompositeIdle /\ PlanesInit
        /\ TextInit /\ PickIdle

CallerSpec == CallerSpecInit /\ [][CallerNext]_vars

CompositeNext ==
    \/ TransformDefault
           /\ UNCHANGED <<part_vars, axes_vars, cube_vars, caller_vars, planes_vars, text_vars, pick_vars>>
    \/ TransformInplace
           /\ UNCHANGED <<part_vars, axes_vars, cube_vars, caller_vars, planes_vars, text_vars, pick_vars>>

CompositeSpecInit ==
    AxesInit /\ PartsIdle /\ CubeInit /\ held = NoObject /\ CompositeInit /\ PlanesInit
        /\ TextInit /\ PickIdle

CompositeSpec == CompositeSpecInit /\ [][CompositeNext]_vars

PlanesNext ==
    \/ SetNormalSign
           /\ UNCHANGED <<part_vars, axes_vars, cube_vars, caller_vars, composite_vars, text_vars, pick_vars>>
    \/ SetPlanesBounds
           /\ UNCHANGED <<part_vars, axes_vars, cube_vars, caller_vars, composite_vars, text_vars, pick_vars>>

PlanesSpecInit ==
    AxesInit /\ PartsIdle /\ CubeInit /\ held = NoObject /\ CompositeIdle /\ PlanesInit
        /\ TextInit /\ PickIdle

PlanesSpec == PlanesSpecInit /\ [][PlanesNext]_vars

TextNext ==
    \/ TextSetAttr /\ UNCHANGED <<part_vars, axes_vars, cube_vars, caller_vars, composite_vars,
                                  planes_vars, pick_vars>>
    \/ TextUpdate /\ UNCHANGED <<part_vars, axes_vars, cube_vars, caller_vars, composite_vars,
                                  planes_vars, pick_vars>>
    \/ TextOutput /\ UNCHANGED <<part_vars, axes_vars, cube_vars, caller_vars, composite_vars,
                                  planes_vars, pick_vars>>

TextSpecInit ==
    AxesInit /\ PartsIdle /\ CubeInit /\ held = NoObject /\ CompositeIdle /\ PlanesInit
        /\ TextInit /\ PickIdle

TextSpec == TextSpecInit /\ [][TextNext]_vars

PickNext ==
    RenderPickData /\ UNCHANGED <<part_vars, axes_vars, cube_vars, caller_vars, composite_vars,
                                  planes_vars, text_vars>>

PickSpecInit ==
    AxesInit /\ PartsIdle /\ CubeInit /\ held = NoObject /\ CompositeIdle /\ PlanesInit
        /\ TextInit /\ PickInit

PickSpec == PickSpecInit /\ [][PickNext]_vars

(***************************************************************************)
(* Properties.                                                             *)
(***************************************************************************)
UnitBox == << <<R(-1, 2), R(1, 2)>>, <<R(-1, 2), R(1, 2)>>, <<R(-1, 2), R(1, 2)>> >>

\* the output was recomputed after the last assignment
Fresh == last \in {"update", "output"}

ShaftBlock(a) == output[a].mesh
TipBlock(a) == output[a + 3].mesh

\* the first n points of a mesh
FirstPoints(m, n) == SubSeq(m.points, 1, n)

\* C1: without mirroring, after update() the shaft of every axis a has bounds
\* [0, shaft_length[a]] along a and [-shaft_radius, shaft_radius] along the
\* two other axes, whatever the shaft type
C1_ShaftScaleLaw ==
    (Fresh /\ ~symmetric) =>
        \A a \in Axes3 :
            LET b == Bounds(ShaftBlock(a))
            IN  \A k \in Axes3 :
                    b[k] = IF k = a THEN <<Zero, shaft_length[a]>>
                           ELSE <<RNeg(shaft_radius), shaft_radius>>

\* the example of the scale law: radius 0.1, lengths (1, 2, 3), a custom shaft
C1_Witness ==
    /\ Fresh /\ ~symmetric
    /\ shaft_type = "custom"
    /\ shaft_radius = R(1, 10)
    /\ shaft_length = <<R(1, 1), R(2, 1), R(3, 1)>>
    /\ Bounds(ShaftBlock(1)) = << <<Zero, One>>, <<R(-1, 10), R(1, 10)>>, <<R(-1, 10), R(1, 10)>> >>

\* C2: after every update() the unmirrored tip geometry of every axis a lies in
\* [shaft_length[a], shaft_length[a] + tip_length[a]] along a, touching both
\* ends, and in [-tip_radius, tip_radius] on the two other axes
C2_TipPlacement ==
    Fresh =>
        \A a \in Axes3 :
            LET n == NPoints(tip_datasets_normalized[a])
                b == PointsBounds(FirstPoints(TipBlock(a), n))
            IN  \A k \in Axes3 :
                    b[k] = IF k = a
                           THEN <<shaft_length[a], RAdd(shaft_length[a], tip_length[a])>>
                           ELSE <<RNeg(tip_radius), tip_radius>>

\* a tip recomputed after both lengths were changed from their defaults
C2_Witness ==
    /\ Fresh
    /\ shaft_length = <<R(1, 1), R(2, 1), R(3, 1)>>
    /\ tip_length = <<Zero, R(1, 5), R(2, 5)>>
    /\ assigned >= 2
    /\ PointsBounds(FirstPoints(TipBlock(3), NPoints(tip_datasets_normalized[3])))[3]
           = <<R(3, 1), R(17, 5)>>

\* C3: with symmetric set, after update() every part holds its template's
\* points twice, the second half being the first half reflected through the
\* plane through the origin perpendicular to the part's axis; the shaft spans
\* [-shaft_length[a], shaft_length[a]] and the tip reaches
\* -+(shaft_length[a] + tip_length[a]) along the axis
C3_SymmetricMirroring ==
    (Fresh /\ symmetric) =>
        \A a \in Axes3 :
            LET ns == NPoints(shaft_datasets_normalized[a])
                nt == NPoints(tip_datasets_normalized[a])
                total == RAdd(shaft_length[a], tip_length[a])
            IN  /\ NPoints(ShaftBlock(a)) = 2 * ns
                /\ NPoints(TipBlock(a)) = 2 * nt
                /\ \A i \in 1..ns : \A k \in Axes3 :
                       ShaftBlock(a).points[ns + i][k] =
                           IF k = a THEN RNeg(ShaftBlock(a).points[i][k])
                           ELSE ShaftBlock(a).points[i][k]
                /\ \A i \in 1..nt : \A k \in Axes3 :
                       TipBlock(a).points[nt + i][k] =
                           IF k = a THEN RNeg(TipBlock(a).points[i][k])
                           ELSE TipBlock(a).points[i][k]
                /\ Bounds(ShaftBlock(a))[a] = <<RNeg(shaft_length[a]), shaft_length[a]>>
                /\ Bounds(TipBlock(a))[a] = <<RNeg(total), total>>

\* symmetric axes with default lengths: the x shaft spans [-0.8, 0.8]
C3_Witness ==
    /\ Fresh /\ symmetric
    /\ shaft_length = <<R(4, 5), R(4, 5), R(4, 5)>>
    /\ Bounds(ShaftBlock(1))[1] = <<R(-4, 5), R(4, 5)>>
    /\ Bounds(TipBlock(1))[1] = <<R(-1, 1), R(1, 1)>>

\* per-axis extents of the part handed to _normalize_part
RawExtent(k) == LET b == Bounds(RawPart(geometry)) IN RSub(b[k][2], b[k][1])

\* C4: whenever _normalize_part succeeds, the bounding box of its result is
\* exactly [-1/2, 1/2] on every axis
C4_NormalizedBox ==
    normalized.status = "ok" => Bounds(normalized.parts[1]) = UnitBox

\* an off-center part with three different extents was normalized
C4_Witness ==
    /\ normalized.status = "ok"
    /\ geometry.tag = "DataSet"
    /\ Center(RawPart(geometry)) = <<R(3, 2), R(1, 2), R(1, 1)>>
    /\ RawExtent(1) = R(1, 1) /\ RawExtent(3) = R(2, 1)
    /\ Bounds(normalized.parts[1]) = UnitBox

\* C5 as stated: _normalize_part fails exactly when some extent does not exceed 1e-8
C5_FailsUnlessExceeds ==
    normalized.status # "unset" =>
        (normalized.status = "ValueError" <=> \E k \in Axes3 : RLe(RawExtent(k), Epsilon))

\* C5, amended: _normalize_part fails with ValueError exactly when some extent
\* is below 1e-8; an extent equal to 1e-8 is accepted
C5_FailsIffBelow ==
    normalized.status # "unset" =>
        /\ normalized.status \in {"ok", "ValueError"}
        /\ normalized.status = "ValueError" <=> \E k \in Axes3 : RLt(RawExtent(k), Epsilon)

\* a part whose smallest extent is exactly 1e-8 was accepted
C5_Witness ==
    /\ normalized.status = "ok"
    /\ \E k \in Axes3 : RawExtent(k) = Epsilon

\* C6: _make_axes_parts returns (x, y, z) where z is the normalized template,
\* x is z with every point (px, py, pz) moved to (pz, py, -px), y is z with
\* every point moved to (px, pz, -py), and the three have the same faces
C6_Triad ==
    triad.status = "ok" =>
        LET x == triad.parts[1]
            y == triad.parts[2]
            z == triad.parts[3]
        IN  /\ Len(triad.parts) = 3
            /\ Bounds(z) = UnitBox
            /\ normalized.status = "ok" => z = normalized.parts[1]
            /\ NPoints(x) = NPoints(z) /\ NPoints(y) = NPoints(z)
            /\ x.faces = z.faces /\ y.faces = z.faces
            /\ \A i \in 1..NPoints(z) :
                   /\ x.points[i] = <<z.points[i][3], z.points[i][2], RNeg(z.points[i][1])>>
                   /\ y.points[i] = <<z.points[i][1], z.points[i][3], RNeg(z.points[i][2])>>

\* the triad of a pyramid: its apex (0, 0, 1/2) went to +x and to +y
C6_Witness ==
    /\ triad.status = "ok"
    /\ geometry = GeomStr("pyramid")
    /\ triad.parts[3].points[5] = <<Zero, Zero, R(1, 2)>>
    /\ triad.parts[1].points[5] = <<R(1, 2), Zero, Zero>>
    /\ triad.parts[2].points[5] = <<Zero, R(1, 2), Zero>>

\* the tolerance of the triad consistency test
Tolerance == R(1, 1000000)

AllClose(ps, qs) ==
    /\ Len(ps) = Len(qs)
    /\ \A i \in 1..Len(ps) : \A k \in Axes3 :
           RLe(RAbs(RSub(ps[i][k], qs[i][k])), Tolerance)

\* C7 as stated: for 'cone', the z part rotated by -90 degrees about y is the x part
C7_MinusNinety ==
    (triad.status = "ok" /\ geometry = GeomStr("cone")) =>
        AllClose(RotateY(triad.parts[3], 270).points, triad.parts[1].points)

\* C7, amended: for 'cone', the z part rotated by +90 degrees about the y axis
\* reproduces the x part point for point
C7_PlusNinety ==
    (triad.status = "ok" /\ geometry = GeomStr("cone")) =>
        AllClose(RotateY(triad.parts[3], 90).points, triad.parts[1].points)

\* the triad of the cone: the apex of the x part is at +x
C7_Witness ==
    /\ triad.status = "ok"
    /\ geometry = GeomStr("cone")
    /\ triad.parts[1].points[1] = <<R(1, 2), Zero, Zero>>

\* C8: normalizing a normalized part succeeds, moves no point and leaves the
\* bounding box at [-1/2, 1/2] on every axis
C8_NormalizeIdempotent ==
    renormalized.status # "unset" =>
        /\ renormalized.status = "ok"
        /\ renormalized.parts[1] = normalized.parts[1]
        /\ Bounds(renormalized.parts[1]) = UnitBox

\* a part that normalization had to move and to stretch was normalized twice
C8_Witness ==
    /\ renormalized.status = "ok"
    /\ geometry.tag = "DataSet"
    /\ RawPart(geometry) # normalized.parts[1]
    /\ Center(RawPart(geometry)) # <<Zero, Zero, Zero>>
    /\ RawExtent(1) = R(2, 1)

\* the geometry of block i as a function of the current parameters alone
ExpectedPart(i) ==
    LET a == IF i <= 3 THEN i ELSE i - 3
        tip == i > 3
        T == IF tip THEN tip_datasets_normalized[a] ELSE shaft_datasets_normalized[a]
        n == NPoints(T)
        len == IF tip THEN tip_length[a] ELSE shaft_length[a]
        rad == IF tip THEN tip_radius ELSE shaft_radius
        off == IF tip THEN shaft_length[a] ELSE Zero
        base == Tup([j \in 1..n |-> Tup([k \in Axes3 |->
                    IF k = a THEN RAdd(RMul(RAdd(T.points[j][k], Half), len), off)
                    ELSE RMul(T.points[j][k], RMul(R(2, 1), rad))])])
        mirrored == Tup([j \in 1..n |-> Tup([k \in Axes3 |->
                    IF k = a THEN RNeg(base[j][k]) ELSE base[j][k]])])
        shifted == Tup([f \in 1..Len(T.faces) |->
                    Tup([j \in 1..Len(T.faces[f]) |-> T.faces[f][j] + n])])
        pad == Tup([k \in Axes3 |->
                    IF k = a THEN RNeg(RAdd(shaft_length[a], tip_length[a])) ELSE Zero])
    IN  IF symmetric
        THEN [points |-> base \o mirrored, faces |-> T.faces \o shifted]
        ELSE IF symmetric_bounds /\ tip
        THEN [points |-> base \o <<pad>>, faces |-> T.faces \o << <<n, n, n>> >>]
        ELSE [points |-> base, faces |-> T.faces]

\* C9: whatever was assigned and updated before, after update() or a read of
\* output the six blocks are named x_shaft, y_shaft, z_shaft, x_tip, y_tip,
\* z_tip in that order and their geometry is determined by the current
\* parameters alone (no accumulated mirror copies or padding cells)
C9_HistoryIndependent ==
    Fresh =>
        /\ Len(output) = 6
        /\ \A i \in 1..6 :
               /\ output[i].name = OUTPUT_NAMES[i]
               /\ output[i].mesh = ExpectedPart(i)

\* output read after symmetric (or symmetric_bounds) was switched back to
\* False: at least two assignments were made and the parts hold no extra points
C9_Witness ==
    /\ last = "output"
    /\ assigned >= 2
    /\ ~symmetric /\ ~symmetric_bounds
    /\ \A a \in Axes3 : NPoints(TipBlock(a)) = NPoints(tip_datasets_normalized[a])
    /\ output[4].mesh = ExpectedPart(4)

CubeFresh == cube_last \in {"update", "output"}

\* the coordinate every point of face block i must have along the face's
\* normal: the upper bound of the cube for blocks 1, 3, 5 and the lower for 2, 4, 6
CubeFaceCoordinate(i) ==
    LET k == (i + 1) \div 2
        half == RMul(Half, cube_lengths[k])
    IN  IF i % 2 = 1 THEN RAdd(cube_center[k], half) ELSE RSub(cube_center[k], half)

\* C10: with no frame, shrink or explode and the default names, the output
\* has six blocks named +X, -X, +Y, -Y, +Z, -Z in that order, each one quad
\* of four points lying on the corresponding side of the current cube
C10_CubeFaces ==
    (CubeFresh /\ ~frame_width.isset /\ ~shrink_factor.isset /\ ~explode_factor.isset
        /\ names = DEFAULT_NAMES) =>
        /\ Len(cube_output) = 6
        /\ \A i \in 1..6 :
               LET m == cube_output[i].mesh
                   k == (i + 1) \div 2
               IN  /\ cube_output[i].name = DEFAULT_NAMES[i]
                   /\ NPoints(m) = 4
                   /\ m.faces = << <<0, 1, 2, 3>> >>
                   /\ \A j \in 1..4 : m.points[j][k] = CubeFaceCoordinate(i)
                   /\ Cardinality({m.points[j] : j \in 1..4}) = 4

\* the faces of an off-center cube with unequal edges
C10_Witness ==
    /\ CubeFresh /\ ~frame_width.isset /\ ~shrink_factor.isset /\ ~explode_factor.isset
    /\ names = DEFAULT_NAMES
    /\ cube_center = PI(1, 2, 3)
    /\ cube_lengths = <<R(2, 1), One, One>>
    /\ \A j \in 1..4 : cube_output[1].mesh.points[j][1] = R(2, 1)
    /\ \A j \in 1..4 : cube_output[2].mesh.points[j][1] = Zero

\* the frame widths the setter accepts
FrameWidths == {w \in FrameWidthInputs : w.isset /\ validate_number(w.val, Zero, One) = "ok"}

\* the four outer corners of a frame, in the order of the quad it was made from
OuterQuad(m) == <<m.points[1], m.points[2], m.points[6], m.points[10]>>

SingleQuad(m) == NPoints(m) = 4 /\ m.faces = << <<0, 1, 2, 3>> >>

FourQuads(m) ==
    /\ NPoints(m) = 16
    /\ m.faces = << <<0, 1, 2, 3>>, <<4, 5, 6, 7>>, <<8, 9, 10, 11>>, <<12, 13, 14, 15>> >>

\* the stored output is what update produces for the current parameters with
\* frame_width replaced by width
RenderedWith(width) ==
    cube_output = cube_faces_update(cube_center, cube_lengths, width, shrink_factor,
                                    explode_factor, names)

\* C11: an update with a frame width set turns every face part into four
\* quads of 16 points, whose outer corners are the points the part had before
\* the frame was enabled; an update after the frame width is set back to None
\* turns every framed part back into one quad of 4 points, the outer corners
\* of the frame, hence the points it had before the frame was enabled
C11_FrameRestore ==
    [][ cube_last' \in {"update", "output"} =>
          /\ frame_width.isset =>
                \A i \in 1..6 : FourQuads(cube_output'[i].mesh)
          /\ (frame_width.isset /\ NPoints(cube_output[1].mesh) = 4 /\ RenderedWith(None)) =>
                \A i \in 1..6 :
                    /\ SingleQuad(cube_output[i].mesh)
                    /\ OuterQuad(cube_output'[i].mesh) = cube_output[i].mesh.points
          /\ (~frame_width.isset /\ NPoints(cube_output[1].mesh) = 16
                /\ \E w \in FrameWidths : RenderedWith(w)) =>
                \A i \in 1..6 :
                    /\ FourQuads(cube_output[i].mesh)
                    /\ SingleQuad(cube_output'[i].mesh)
                    /\ cube_output'[i].mesh.points = OuterQuad(cube_output[i].mesh)
      ]_vars

\* the frame of width 1/5 was rendered and the width has been set back to
\* None: the next update restores the faces
C11_Witness ==
    /\ ~frame_width.isset
    /\ cube_last = "set"
    /\ RenderedWith(Some(R(1, 5)))
    /\ \A i \in 1..6 : FourQuads(cube_output[i].mesh)
    /\ cube_lengths = <<R(2, 1), One, One>>

\* the quad of a face part: its four points, or the outer corners of its frame
QuadOf(m) == IF NPoints(m) = 16 THEN OuterQuad(m) ELSE m.points

\* the axis a face block is normal to: x for blocks 1, 2, y for 3, 4, z for 5, 6
NormalAxis(i) == (i + 1) \div 2

\* the smallest edge length of the cube
MinLength == RMin(cube_lengths[1], RMin(cube_lengths[2], cube_lengths[3]))

\* coordinate c moved toward the coordinate mid by the distance d
Toward(c, mid, d) ==
    IF RLt(mid, c) THEN RSub(c, d) ELSE IF RLt(c, mid) THEN RAdd(c, d) ELSE c

\* C12: with shrink_factor s set, every corner of every face is the corner of
\* the unshrunk face with each in-plane coordinate moved toward the face
\* centroid by (1 - s) * min_length / 2, the same distance on all six faces,
\* and with the coordinate along the normal unchanged; s = 1 changes nothing
C12_ShrinkLaw ==
    (CubeFresh /\ shrink_factor.isset) =>
        LET d == RMul(RSub(One, shrink_factor.val), RMul(Half, MinLength))
            law(unshrunk) ==
                \A i \in 1..6 :
                    LET q == QuadOf(unshrunk[i].mesh)
                        p == QuadOf(cube_output[i].mesh)
                        mid == Mean(q)
                    IN  /\ Len(p) = 4
                        /\ \A j \in 1..4, a \in Axes3 :
                              p[j][a] = IF a = NormalAxis(i) THEN q[j][a]
                                        ELSE Toward(q[j][a], mid[a], d)
                        /\ shrink_factor.val = One => p = q
        IN  law(cube_faces_update(cube_center, cube_lengths, frame_width, None,
                                  explode_factor, names))

\* lengths (2, 1, 1) and s = 1/2: the edges of the +X face along y and z and
\* the edges of the +Y face along x and z have all moved by 1/4
C12_Witness ==
    /\ CubeFresh
    /\ shrink_factor = Some(R(1, 2))
    /\ ~frame_width.isset /\ ~explode_factor.isset
    /\ cube_center = PI(0, 0, 0)
    /\ cube_lengths = <<R(2, 1), One, One>>
    /\ {cube_output[1].mesh.points[j][2] : j \in 1..4} = {R(-1, 4), R(1, 4)}
    /\ {cube_output[1].mesh.points[j][3] : j \in 1..4} = {R(-1, 4), R(1, 4)}
    /\ {cube_output[3].mesh.points[j][1] : j \in 1..4} = {R(-3, 4), R(3, 4)}
    /\ {cube_output[3].mesh.points[j][3] : j \in 1..4} = {R(-1, 4), R(1, 4)}
    /\ \A j \in 1..4 : cube_output[1].mesh.points[j][1] = One

\* the outward unit normal of face block i: +axis for blocks 1, 3, 5 and
\* -axis for blocks 2, 4, 6
Outward(i) ==
    Tup([a \in Axes3 |-> IF a # NormalAxis(i) THEN Zero
                         ELSE IF i % 2 = 1 THEN One ELSE RNeg(One)])

InnerQuad(m) == <<m.points[4], m.points[3], m.points[7], m.points[11]>>

\* 1 - frame_width * min_length / lengths, per axis
FrameScale ==
    Tup([a \in Axes3 |-> RSub(One, RDiv(RMul(frame_width.val, MinLength), cube_lengths[a]))])

\* C14: with frame_width set, the inner corners of every frame are its outer
\* corners (the shrunk and exploded quad) scaled about the centroid of that
\* quad, so that all 16 points of the frame have the normal coordinate of the
\* outer quad
C14_FramePlanar ==
    (CubeFresh /\ frame_width.isset) =>
        \A i \in 1..6 :
            LET m == cube_output[i].mesh
                outer == OuterQuad(m)
            IN  /\ InnerQuad(m) = scale_points(outer, Mean(outer), FrameScale)
                /\ \A j \in 1..16 : m.points[j][NormalAxis(i)] = outer[1][NormalAxis(i)]

\* the width of the border of a frame at corner j, measured along the
\* in-plane axis a: the distance between the outer and the inner edge that
\* are perpendicular to a
BorderWidth(m, j, a) == RAbs(RSub(OuterQuad(m)[j][a], InnerQuad(m)[j][a]))

\* C15: with frame_width set, the border of the frame has one and the same
\* width on all four sides of every face and on all six faces
C15_ConstantWidth ==
    (CubeFresh /\ frame_width.isset) =>
        \A i \in 1..6, j \in 1..4 : \A a \in Axes3 \ {NormalAxis(i)} :
            BorderWidth(cube_output[i].mesh, j, a) = BorderWidth(cube_output[1].mesh, 1, 2)

\* a names argument the setter must accept: a list or tuple of 3 or 6 strings
WellFormedNames(arg) ==
    /\ arg.islist
    /\ Len(arg.items) \in {3, 6}
    /\ \A i \in 1..Len(arg.items) : arg.items[i].isstr

\* the names a well-formed argument stands for: six strings as they are,
\* three strings (a, b, c) as +a, -a, +b, -b, +c, -c
StoredNames(arg) ==
    Tup([i \in 1..6 |->
        IF Len(arg.items) = 6 THEN arg.items[i].s
        ELSE (IF i % 2 = 1 THEN "+" ELSE "-") \o arg.items[(i + 1) \div 2].s])

CubeErrors == {"TypeError", "ValueError"}

\* C16: the names setter accepts exactly the lists and tuples of 3 or 6
\* strings and stores the six names they stand for; a rejected assignment
\* leaves the stored names (and every other parameter and the output) as they
\* were; names change only to the names of a well-formed argument; every read
\* of output leaves block i named names[i]
C16_Names ==
    /\ [](\A arg \in NamesInputs :
            IF WellFormedNames(arg)
            THEN valid_names(arg) = Ok("", StoredNames(arg))
            ELSE valid_names(arg).status \in CubeErrors)
    /\ [][ /\ cube_last' \in CubeErrors =>
                 /\ names' = names
                 /\ cube_params' = cube_params
                 /\ cube_output' = cube_output
           /\ names' # names =>
                 /\ cube_last' = "set"
                 /\ \E arg \in NamesInputs : WellFormedNames(arg) /\ names' = StoredNames(arg)
           /\ cube_last' = "output" =>
                 /\ names' = names
                 /\ \A i \in 1..6 : cube_output'[i].name = names[i]
         ]_vars

\* three names were assigned and the output read: its blocks carry the six
\* expanded names
C16_Witness ==
    /\ cube_last = "output"
    /\ names = <<"+U", "-U", "+V", "-V", "+W", "-W">>
    /\ \A i \in 1..6 : cube_output[i].name = names[i]

\* the output of a newly constructed source that is given the current values
\* of center, lengths, frame_width, shrink_factor, explode_factor and names
FreshSourceOutput ==
    cube_faces_update(cube_center, cube_lengths, frame_width, shrink_factor, explode_factor,
                      names)

\* C17: after any sequence of assignments and update()/output calls, the
\* output that was computed last equals the output of a newly constructed
\* source with the current parameter values
C17_CubeHistoryIndependent ==
    CubeFresh => cube_output = FreshSourceOutput

\* two assignments, with or without updates in between, and an update: the
\* shrunk frames are those of a new source with these two values
C17_Witness ==
    /\ CubeFresh
    /\ cube_assigned = 2
    /\ shrink_factor = Some(R(1, 2))
    /\ frame_width = Some(R(1, 5))
    /\ cube_lengths = <<R(2, 1), One, One>>
    /\ \A i \in 1..6 : FourQuads(cube_output[i].mesh)
    /\ cube_output = FreshSourceOutput

AxesErrors == {"TypeError", "ValueError"}

NonNegative(v) == ~RLt(v, Zero)

\* the values the range checks of the setters let through
StoredValuesInRange ==
    /\ NonNegative(shaft_radius) /\ NonNegative(tip_radius)
    /\ \A k \in Axes3 : NonNegative(shaft_length[k]) /\ NonNegative(tip_length[k])
    /\ frame_width.isset => NonNegative(frame_width.val) /\ RLe(frame_width.val, One)
    /\ shrink_factor.isset => NonNegative(shrink_factor.val)

\* the 3-vector a length argument stands for
Broadcast(length) == IF Len(length) = 1 THEN <<length[1], length[1], length[1]>> ELSE length

\* C18: a value out of range is never stored, so that no update meets one;
\* the assignment that raises leaves every stored parameter, the cached
\* templates and the output as they were; a stored parameter changes only in
\* an assignment that does not raise, to a value of its range (0 and, for the
\* frame width, 1 and None included); update raises nothing
C18_RangeErrors ==
    /\ []StoredValuesInRange
    /\ [][ /\ last' \in AxesErrors =>
                 /\ axes_params' = axes_params
                 /\ shaft_datasets_normalized' = shaft_datasets_normalized
                 /\ tip_datasets_normalized' = tip_datasets_normalized
                 /\ output' = output
           /\ cube_last' \in CubeErrors =>
                 /\ cube_params' = cube_params
                 /\ cube_output' = cube_output
           /\ shaft_radius' # shaft_radius =>
                 last' = "set" /\ shaft_radius' \in {r \in ShaftRadiusInputs : NonNegative(r)}
           /\ tip_radius' # tip_radius =>
                 last' = "set" /\ tip_radius' \in {r \in TipRadiusInputs : NonNegative(r)}
           /\ shaft_length' # shaft_length =>
                 /\ last' = "set"
                 /\ \E length \in ShaftLengthInputs :
                       /\ \A k \in 1..Len(length) : NonNegative(length[k])
                       /\ shaft_length' = Broadcast(length)
           /\ tip_length' # tip_length =>
                 /\ last' = "set"
                 /\ \E length \in TipLengthInputs :
                       /\ \A k \in 1..Len(length) : NonNegative(length[k])
                       /\ tip_length' = Broadcast(length)
           /\ frame_width' # frame_width =>
                 cube_last' = "set" /\ frame_width' \in FrameWidths \cup {None}
           /\ shrink_factor' # shrink_factor =>
                 /\ cube_last' = "set"
                 /\ shrink_factor' \in {f \in ShrinkFactorInputs :
                                           f.isset => NonNegative(f.val)}
           /\ output' # output => last' = "update"
           /\ cube_output' # cube_output => cube_last' = "update"
         ]_vars

\* the frame width 1 was accepted, and a later assignment of a value out of
\* range has raised and left it stored
C18_Witness ==
    /\ cube_last = "ValueError"
    /\ cube_assigned = 2
    /\ frame_width = Some(One)
    /\ ~shrink_factor.isset

\* a geometry argument the type setters must reject: a name outside
\* GEOMETRY_TYPES, a value that is neither a string nor a dataset, a dataset
\* whose bounding box is degenerate on some axis
InvalidGeometry(g) ==
    \/ g.tag = "str" /\ g.name \notin {"cylinder", "sphere", "hemisphere", "cone", "pyramid",
                                       "cube", "octahedron"}
    \/ g.tag = "other"
    \/ g.tag = "DataSet" /\ \E k \in Axes3 :
           LET b == Bounds(g.mesh) IN RLt(RSub(b[k][2], b[k][1]), Epsilon)

\* the type reported after a valid assignment
ReportedType(g) == IF g.tag = "str" THEN g.name ELSE "custom"

\* C19: the type setters raise for exactly the invalid geometry arguments;
\* an assignment that raises leaves the reported types, the cached templates
\* of both parts, every other parameter and the output as they were; the
\* reported type and the templates of a part change only in an assignment of
\* a valid argument that does not raise
C19_InvalidGeometry ==
    /\ [](\A g \in ShaftTypeInputs \cup TipTypeInputs :
            LET rejected(r) ==
                    /\ r.status \in AxesErrors <=> InvalidGeometry(g)
                    /\ r.status \in AxesErrors => r.parts = shaft_datasets_normalized
            IN  rejected(set_normalized_datasets(shaft_datasets_normalized, g)))
    /\ [][ /\ last' \in AxesErrors =>
                 /\ shaft_type' = shaft_type /\ tip_type' = tip_type
                 /\ shaft_datasets_normalized' = shaft_datasets_normalized
                 /\ tip_datasets_normalized' = tip_datasets_normalized
                 /\ axes_params' = axes_params
                 /\ output' = output
           /\ (shaft_type' # shaft_type
                   \/ shaft_datasets_normalized' # shaft_datasets_normalized) =>
                 /\ last' = "set"
                 /\ \E g \in ShaftTypeInputs :
                       ~InvalidGeometry(g) /\ shaft_type' = ReportedType(g)
           /\ (tip_type' # tip_type \/ tip_datasets_normalized' # tip_datasets_normalized) =>
                 /\ last' = "set"
                 /\ \E g \in TipTypeInputs :
                       ~InvalidGeometry(g) /\ tip_type' = ReportedType(g)
         ]_vars

\* the shaft was made a cube, and a later assignment of a value that is
\* neither a string nor a dataset has raised: type and templates are the cube's
C19_Witness ==
    /\ last = "TypeError"
    /\ shaft_type = "cube"
    /\ tip_type = "cone"
    /\ \A a \in Axes3 : NPoints(shaft_datasets_normalized[a]) = NPoints(Cube)
    /\ Bounds(shaft_datasets_normalized[3]) = UnitBox

\* C20: a call of _make_axes_parts on a dataset, whether it succeeds or
\* raises the degeneracy error, leaves the caller's dataset as it was, points
\* and bounds; when it succeeds the name returned is 'custom'
C20_InputNotModified ==
    [][ triad' # triad =>
          /\ geometry' = geometry
          /\ geometry.tag = "DataSet" =>
                /\ geometry'.mesh.points = geometry.mesh.points
                /\ Bounds(geometry'.mesh) = Bounds(geometry.mesh)
                /\ triad'.status \in {"ok", "ValueError"}
                /\ triad'.status = "ok" => triad'.name = "custom"
      ]_vars

\* a PolyData that is not normalized was passed: the template returned fills
\* the unit box, the caller's dataset does not
C20_Witness ==
    /\ geometry.tag = "DataSet"
    /\ geometry.cls = "PolyData"
    /\ triad.status = "ok"
    /\ triad.name = "custom"
    /\ Bounds(triad.parts[3]) = UnitBox
    /\ Bounds(geometry.mesh) = << <<One, R(3, 1)>>, <<Zero, One>>, <<One, R(2, 1)>> >>

\* the points of all six parts of the output
AllOutputPoints ==
    output[1].mesh.points \o output[2].mesh.points \o output[3].mesh.points
        \o output[4].mesh.points \o output[5].mesh.points \o output[6].mesh.points

\* bounds that are symmetric about the origin on every axis
SymmetricAboutOrigin(b) == \A k \in Axes3 : b[k][1] = RNeg(b[k][2])

\* C21: with symmetric off and symmetric_bounds on, after update() every tip
\* holds the points and cells of its scaled template followed by exactly one
\* point at -(shaft_length[a] + tip_length[a]) on its own axis and one cell
\* whose three indices are that point; the shafts hold the points and cells of
\* their templates only; the bounds of the six parts together are symmetric
\* about the origin
C21_SymmetricBoundsPadding ==
    (Fresh /\ ~symmetric /\ symmetric_bounds) =>
        /\ \A a \in Axes3 :
              LET tip == TipBlock(a)
                  n == NPoints(tip_datasets_normalized[a])
                  total_length == RAdd(shaft_length[a], tip_length[a])
              IN  /\ NPoints(tip) = n + 1
                  /\ tip.points[n + 1] = AxisVector(a, RNeg(total_length))
                  /\ tip.faces = Append(tip_datasets_normalized[a].faces, <<n, n, n>>)
                  /\ NPoints(ShaftBlock(a)) = NPoints(shaft_datasets_normalized[a])
                  /\ ShaftBlock(a).faces = shaft_datasets_normalized[a].faces
        /\ SymmetricAboutOrigin(PointsBounds(AllOutputPoints))

\* the default parameters with symmetric_bounds on: the output spans [-1, 1]
\* on x, y and z
C21_Witness ==
    /\ Fresh /\ ~symmetric /\ symmetric_bounds
    /\ shaft_type = "cylinder" /\ tip_type = "cone"
    /\ shaft_length = <<R(4, 5), R(4, 5), R(4, 5)>>
    /\ tip_length = <<R(1, 5), R(1, 5), R(1, 5)>>
    /\ shaft_radius = R(1, 40) /\ tip_radius = R(1, 10)
    /\ output[4].mesh.points[NPoints(output[4].mesh)] = <<RNeg(One), Zero, Zero>>
    /\ PointsBounds(AllOutputPoints)
           = << <<RNeg(One), One>>, <<RNeg(One), One>>, <<RNeg(One), One>> >>

\* part i of a mirrored output, from the template of the part and the radii
\* and lengths alone: the scaled and placed template followed by its
\* reflection through the plane perpendicular to the part's axis
MirroredPart(i) ==
    LET a == IF i <= 3 THEN i ELSE i - 3
        template == IF i <= 3 THEN shaft_datasets_normalized[a] ELSE tip_datasets_normalized[a]
        len == IF i <= 3 THEN shaft_length[a] ELSE tip_length[a]
        diameter == RMul(R(2, 1), IF i <= 3 THEN shaft_radius ELSE tip_radius)
        offset == IF i <= 3 THEN Zero ELSE shaft_length[a]
        n == NPoints(template)
        placed(p, sign) ==
            Tup([k \in Axes3 |->
                IF k = a THEN RMul(sign, RAdd(RMul(RAdd(p[k], Half), len), offset))
                ELSE RMul(p[k], diameter)])
    IN  [points |-> Tup([j \in 1..(2 * n) |->
                        IF j <= n THEN placed(template.points[j], One)
                        ELSE placed(template.points[j - n], RNeg(One))]),
         faces |-> Tup([f \in 1..(2 * Len(template.faces)) |->
                        IF f <= Len(template.faces) THEN template.faces[f]
                        ELSE Tup([j \in 1..Len(template.faces[f - Len(template.faces)]) |->
                                 template.faces[f - Len(template.faces)][j] + n])])]

\* C22: with symmetric on, the six parts after update() are determined by the
\* templates, radii and lengths alone, so that the output with
\* symmetric_bounds on is the output with symmetric_bounds off
C22_SymmetricBoundsNoEffect ==
    (Fresh /\ symmetric) => \A i \in 1..6 : output[i].mesh = MirroredPart(i)

\* both flags on: the x tip holds its template twice and no further point
C22_Witness ==
    /\ Fresh /\ symmetric /\ symmetric_bounds
    /\ NPoints(output[4].mesh) = 2 * NPoints(tip_datasets_normalized[1])
    /\ output[4].mesh = MirroredPart(4)

\* the composite stored in the source the caller works with
Internal == IF CubeUntouched THEN output ELSE cube_output

\* what the composite the caller holds shows
Seen == Deref(held, Internal)

\* C23 as stated: once the caller holds an output, no call on the source
\* changes what that object shows
C23_OutputSeparate == [][held.ref # "none" => Seen' = Seen]_vars

\* C23: the composite the caller holds is the source's own _output, so that
\* it shows at every moment what the source's last update() or output built
C23_OutputShared == held.ref # "none" => Seen = Internal

\* the caller's object no longer shows what it showed when it was handed over
C23_Witness ==
    /\ held.ref = "_output"
    /\ last = "update"
    /\ Seen # held.taken
    /\ Seen = reset_shaft_and_tip_geometry

\* the blocks of composite, every dataset among them moved by trans once
EachOnce(composite, trans) ==
    Tup([i \in 1..Len(composite) |->
        [name |-> composite[i].name,
         data |-> IF composite[i].data = NoneBlock THEN NoneBlock
                  ELSE dataset_transform(composite[i].data, trans)]])

\* C24: a call of transform that passes no inplace leaves the composite it is
\* called on as it was and returns another composite
C24_DefaultNotInPlace ==
    transformed.inplace = "default" => (mb = transformed.before /\ ~transformed.same)

\* C29: the composite a call of transform returns holds, block for block and
\* under the same names, None where the composite held None and every
\* dataset moved by the transformation once
C29_EveryBlockOnce ==
    transformed.calls > 0 => transformed.returned = EachOnce(transformed.before, transformed.trans)

\* the sign of the normal of plane i along the axis the plane is perpendicular to
NormalSignOf(i) ==
    IF RLt(Zero, plane_normal(sources[i])[i]) THEN "+"
    ELSE IF RLt(plane_normal(sources[i])[i], Zero) THEN "-" ELSE "0"

\* C25: for each of the three planes the sign of the plane source's normal
\* along its own axis is the entry of normal_sign
C25_NormalSignAgrees == \A i \in 1..3 : NormalSignOf(i) = normal_sign[i]

\* the stored parameters an assignment has changed, by their place in axes_params
Changed == {k \in 1..8 : axes_params'[k] # axes_params[k]}

\* C26: a step that is not update() or output leaves the six output parts as
\* they are and changes at most one stored parameter; the shaft templates
\* change only in a step that changes no parameter but shaft_type and leaves
\* the tip templates alone, and the tip templates likewise with tip_type
C26_SettersLazyLocal ==
    [][ last' \notin {"update", "output"} =>
            /\ output' = output
            /\ Cardinality(Changed) <= 1
            /\ shaft_datasets_normalized' # shaft_datasets_normalized =>
                   (Changed \subseteq {1} /\ tip_datasets_normalized' = tip_datasets_normalized)
            /\ tip_datasets_normalized' # tip_datasets_normalized =>
                   (Changed \subseteq {2}
                        /\ shaft_datasets_normalized' = shaft_datasets_normalized)
            /\ 1 \in Changed => tip_datasets_normalized' = tip_datasets_normalized
            /\ 2 \in Changed => shaft_datasets_normalized' = shaft_datasets_normalized
      ]_vars

\* parameters were assigned after an update: the output parts are those of
\* the parameters before the assignment
C26_Witness ==
    /\ last = "set"
    /\ NPoints(output[1].mesh) > 0
    /\ output # reset_shaft_and_tip_geometry

\* C28: each of the six cached templates has the bounding box [-1/2, 1/2]^3
\* in every state; update() and output leave the templates as they are, and
\* a step that changes a template is an accepted assignment that changes no
\* radius, length or flag and no output part
C28_TemplatesNormalized ==
    /\ [](\A a \in Axes3 :
              /\ Bounds(shaft_datasets_normalized[a]) = UnitBox
              /\ Bounds(tip_datasets_normalized[a]) = UnitBox)
    /\ [][ /\ last' \in {"update", "output"} =>
                  /\ shaft_datasets_normalized' = shaft_datasets_normalized
                  /\ tip_datasets_normalized' = tip_datasets_normalized
           /\ (shaft_datasets_normalized' # shaft_datasets_normalized
                   \/ tip_datasets_normalized' # tip_datasets_normalized) =>
                  /\ last' = "set"
                  /\ \A k \in 3..8 : axes_params'[k] = axes_params[k]
                  /\ output' = output
         ]_vars

\* after update() with a custom tip: the x tip of the output is scaled and
\* moved, its template is still the unit box
C28_Witness ==
    /\ last = "update"
    /\ tip_type = "custom"
    /\ Bounds(tip_datasets_normalized[1]) = UnitBox
    /\ Bounds(output[4].mesh) # UnitBox
    /\ NPoints(output[4].mesh) >= NPoints(tip_datasets_normalized[1])

\* what an assignment of value to the declared parameter name does in the
\* current state: an equal value changes neither the parameters nor the
\* flag, a different value either raises and changes nothing or is stored
\* with the flag set
AssignmentLaw(name, value) ==
    LET law(r) ==
            /\ value = text[name] => (r.text = text /\ r.modified = text_modified)
            /\ value # text[name] =>
                   \/ r.status = "ValueError" /\ setter_raises(name, value)
                          /\ r.text = text /\ r.modified = text_modified
                   \/ r.status = "set" /\ r.modified
                          /\ r.text = [text EXCEPT ![name] = stored_value(name, value)]
    IN  law(text_setattr(text, text_modified, name, value))

\* C27: an assignment of a different value to a declared parameter sets the
\* modified flag and one of an equal value leaves it; an assignment to an
\* undeclared attribute raises AttributeError and changes nothing; update()
\* and output rebuild the output exactly when the flag is set and clear the
\* flag; with the flag clear, the output is the one of the current parameters
C27_DirtyFlag ==
    /\ [](/\ \A value \in StringArgs : AssignmentLaw("string", value)
          /\ \A name \in SizeNames, value \in SizeArgs : AssignmentLaw(name, value)
          /\ \A name \in {"center", "normal"}, value \in VectorArgs : AssignmentLaw(name, value)
          /\ \A value \in BOOLEAN : AssignmentLaw("process_empty_string", value)
          /\ ~text_modified => text_output = text_mesh(text))
    /\ [][ /\ text_last'.op = "setattr" =>
                  /\ text_output' = text_output
                  /\ text' # text => text_modified'
                  /\ text_last'.status = "same" => (text' = text /\ text_modified' = text_modified)
                  /\ text_last'.status = "AttributeError" =>
                         (text_last'.name \notin DeclaredNames /\ text' = text
                              /\ text_modified' = text_modified)
           /\ text_last'.op \in {"update", "output"} =>
                  /\ text' = text
                  /\ ~text_modified'
                  /\ text_output' = IF text_modified THEN text_mesh(text) ELSE text_output
                  /\ text_last'.status = "recomputed" <=> text_modified
         ]_vars

\* parameters were assigned after an update and the output was read again
C27_Witness ==
    /\ text_last = [op |-> "output", name |-> "", status |-> "recomputed"]
    /\ text_assigned = 3
    /\ text.string = StringOf("ab")
    /\ text.width = Some(R(2, 1))
    /\ text.normal = <<One, Zero, Zero>>
    /\ text_output = text_mesh(text)
    /\ text_output.filters = "extrude, triangle"

\* the pick id a pixel stands for
PickIdOf(pixel) == IF pixel.isnan THEN 0 ELSE pixel.val

====
